---- MODULE Spec2Model ----
(***************************************************************************)
(* Model of the akamai-playground client wrappers: the network-list client *)
(* (src/netlist/network_list.go) and the appsec client (src/appsec,        *)
(* src/unnamed/part_000).  A client method validates its request, builds   *)
(* one *http.Request, hands it to the session's Exec and turns the outcome *)
(* into (result, error).  An invocation is modelled in three steps: the    *)
(* method up to its Exec call, the session's Exec (the transport, which    *)
(* chooses the outcome), and the method from the return of Exec to its own *)
(* return.                                                                 *)
(*                                                                         *)
(* Encodings.  A Go string is a sequence of tokens: the characters of a    *)
(* caller-supplied string one by one, the literal pieces of a format       *)
(* string as whole tokens.  A nilable value (pointer, error, interface) is *)
(* a sequence of length at most one: Nil is <<>>, a non-nil value v is     *)
(* <<v>>.                                                                   *)
(***************************************************************************)
EXTENDS Integers, Sequences, FiniteSets

VARIABLES pc, op, params, req, resp, ret, execCalls, errorCalls

vars == <<pc, op, params, req, resp, ret, execCalls, errorCalls>>

Nil == <<>>

Some(v) == <<v>>

----------------------------------------------------------------------------
(* Bounds of the model. *)

\* sync points range over 0..MaxSyncPoint
MaxSyncPoint == 1

\* GetConfigVersions is called with 0..MaxParams optional parameters
MaxParams == 4

----------------------------------------------------------------------------
(* net/http status codes the methods compare against, and two others. *)

StatusOK == 200

StatusCreated == 201

StatusAccepted == 202

StatusNoContent == 204

StatusNotFound == 404

StatusInternalServerError == 500

Statuses ==
  {StatusOK, StatusCreated, StatusAccepted, StatusNoContent, StatusNotFound,
   StatusInternalServerError}

----------------------------------------------------------------------------
(* The enumerations. *)

IP == 1

GEO == 2

STAGING == 1

PRODUCTION == 2

\* [...]string{"IP", "GEO"}[n]: the index is n itself; out of range panics
NetworkTypeStringPanics(n) == n < 0 \/ n > 1

NetworkTypeString(n) == <<"IP", "GEO">>[n + 1]

\* [...]string{"STAGING", "PRODUCTION"}[e-1]; out of range panics
EnvironmentStringPanics(e) == e - 1 < 0 \/ e - 1 > 1

\* Environment.String() as it would be with the two labels exchanged
EnvironmentStringSwapped(e) == <<"PRODUCTION", "STAGING">>[(e - 1) + 1]

EnvironmentString(e) == <<"STAGING", "PRODUCTION">>[(e - 1) + 1]

----------------------------------------------------------------------------
(* Errors.  An error is [text, unwrap]: its message and the error it wraps. *)

\* errors.New("struct validation")
ErrStructValidation == [text |-> <<"struct validation">>, unwrap |-> Nil]

\* errors.New("resource not found")
ErrNotFound == [text |-> <<"resource not found">>, unwrap |-> Nil]

\* fmt.Errorf with %v in place of %w: the message only, nothing wrapped
ErrorfNoWrap(prefix, err) ==
  [text |-> <<prefix, ": ">> \o err.text, unwrap |-> Nil]

\* fmt.Errorf(prefix + ": %w", err)
ErrorfWrap(prefix, err) ==
  [text |-> <<prefix, ": ">> \o err.text, unwrap |-> Some(err)]

\* fmt.Errorf("%w: %s", sentinel, msg)
ErrorfWrapMsg(sentinel, msg) ==
  [text |-> sentinel.text \o <<": ">> \o msg, unwrap |-> Some(sentinel)]

RECURSIVE ErrorsIs(_, _)
\* errors.Is(err, target): target is err or is in the chain err wraps
ErrorsIs(err, target) ==
  \/ err = target
  \/ err.unwrap # Nil /\ ErrorsIs(err.unwrap[1], target)

----------------------------------------------------------------------------
(* ozzo-validation. *)

\* validation.Validate(s, validation.Required) for a string
RequiredString(s) == IF Len(s) = 0 THEN Some("cannot be blank") ELSE Nil

\* validation.Validate(n, validation.Required) for an integer type
RequiredInt(n) == IF n = 0 THEN Some("cannot be blank") ELSE Nil

\* the keys a validation.Errors may have, in the sorted order of Error()
FieldOrder == <<"description", "element", "environment", "name", "networkListId">>

\* Filter if it stopped at the first failing field
FilterFirst(errs) ==
  LET bad == {k \in DOMAIN errs : errs[k] # Nil}
  IN  IF bad = {} THEN Nil
      ELSE LET k1 == CHOOSE k \in bad : TRUE
           IN  Some([k \in {k1} |-> errs[k][1]])

\* validation.Errors.Filter(): drop the nil entries; nil when none is left
Filter(errs) ==
  LET bad == {k \in DOMAIN errs : errs[k] # Nil}
  IN  IF bad = {} THEN Nil ELSE Some([k \in bad |-> errs[k][1]])

RECURSIVE ErrorsText(_, _)
\* validation.Errors.Error(): "k1: msg; k2: msg." over the sorted keys
ErrorsText(es, i) ==
  IF i > Len(FieldOrder) THEN <<".">>
  ELSE IF FieldOrder[i] \in DOMAIN es
       THEN <<FieldOrder[i], ": ", es[FieldOrder[i]], ";">> \o ErrorsText(es, i + 1)
       ELSE ErrorsText(es, i + 1)

ErrorsError(es) == ErrorsText(es, 1)

----------------------------------------------------------------------------
(* net/url and net/http request construction. *)

HexDigits == {"0", "1", "2", "3", "4", "5", "6", "7", "8", "9",
              "a", "b", "c", "d", "e", "f", "A", "B", "C", "D", "E", "F"}

\* strings.Index for one token: the first position of t in s, 0 when absent
IndexOf(s, t) ==
  IF \E i \in 1..Len(s) : s[i] = t
  THEN CHOOSE i \in 1..Len(s) : s[i] = t /\ \A j \in 1..(i - 1) : s[j] # t
  ELSE 0

\* url.unescape's check: every % is followed by two hexadecimal digits
ValidEscapes(s) ==
  \A i \in 1..Len(s) :
    s[i] = "%" => /\ i + 2 <= Len(s)
                  /\ s[i + 1] \in HexDigits
                  /\ s[i + 2] \in HexDigits

\* url.Parse: cut the fragment at the first #, the query at the first ?,
\* and reject a path or fragment with an invalid escape
Parse(uri) ==
  LET h    == IndexOf(uri, "#")
      u    == IF h = 0 THEN uri ELSE SubSeq(uri, 1, h - 1)
      frag == IF h = 0 THEN <<>> ELSE SubSeq(uri, h + 1, Len(uri))
      q    == IndexOf(u, "?")
      path == IF q = 0 THEN u ELSE SubSeq(u, 1, q - 1)
      raw  == IF q = 0 THEN <<>> ELSE SubSeq(u, q + 1, Len(u))
  IN  IF ValidEscapes(path) /\ ValidEscapes(frag)
      THEN [err |-> Nil, Path |-> path, RawQuery |-> raw]
      ELSE [err |-> Some([text |-> <<"parse: invalid URL escape">>, unwrap |-> Nil]),
            Path |-> <<>>, RawQuery |-> <<>>]

\* http.NewRequestWithContext(ctx, method, uri, nil)
NewRequestWithContext(method, uri) ==
  LET u == Parse(uri)
  IN  [err |-> u.err, Method |-> method, Path |-> u.Path, RawQuery |-> u.RawQuery]

\* strconv.FormatBool
FormatBool(b) == IF b THEN <<"true">> ELSE <<"false">>

Digits == <<"0", "1", "2", "3", "4", "5", "6", "7", "8", "9">>

RECURSIVE Itoa(_)
\* the %d verb of fmt.Sprintf
Itoa(n) ==
  IF n < 0 THEN <<"-">> \o Itoa(0 - n)
  ELSE IF n < 10 THEN <<Digits[n + 1]>>
  ELSE Itoa(n \div 10) \o <<Digits[(n % 10) + 1]>>

\* url.QueryEscape for one character
EscapeChar(c) ==
  CASE c = " " -> <<"+">>
    [] c = "%" -> <<"%", "2", "5">>
    [] c = "/" -> <<"%", "2", "F">>
    [] c = "?" -> <<"%", "3", "F">>
    [] c = "#" -> <<"%", "2", "3">>
    [] c = "&" -> <<"%", "2", "6">>
    [] c = "=" -> <<"%", "3", "D">>
    [] c = "+" -> <<"%", "2", "B">>
    [] OTHER   -> <<c>>

RECURSIVE QueryEscape(_)
\* url.QueryEscape
QueryEscape(s) ==
  IF s = <<>> THEN <<>> ELSE EscapeChar(Head(s)) \o QueryEscape(Tail(s))

\* the query keys the methods add, in the byte order url.Values.Encode sorts by
KeyOrder == <<"element", "extended", "includeElements", "listType", "search">>

\* url.Values.Add as it would be if a false option were left out
AddUnlessFalse(q, key, value) ==
  IF value = <<"false">> THEN q ELSE Append(q, <<<<key>>, value>>)

\* url.Values.Add: q is the sequence of <<key, value>> settings so far, key
\* and value being strings
Add(q, key, value) == Append(q, <<<<key>>, value>>)

RECURSIVE EncodeFrom(_, _, _)
EncodeFrom(q, i, first) ==
  IF i > Len(KeyOrder) THEN <<>>
  ELSE LET vs == SelectSeq(q, LAMBDA kv : kv[1] = <<KeyOrder[i]>>)
       IN  IF vs = <<>> THEN EncodeFrom(q, i + 1, first)
           ELSE (IF first THEN <<>> ELSE <<"&">>)
                \o <<KeyOrder[i], "=">> \o QueryEscape(vs[1][2])
                \o EncodeFrom(q, i + 1, FALSE)

\* url.Values.Encode: key=value pairs sorted by key, joined by &, escaped
\* (every key is added at most once by the methods)
Encode(q) == EncodeFrom(q, 1, TRUE)

----------------------------------------------------------------------------
(* The request values a caller can construct (bounded). *)

\* the character a %XY escape stands for
Unhex(a, b) ==
  CASE a = "2" /\ b = "5" -> "%"
    [] a = "2" /\ b = "F" -> "/"
    [] a = "3" /\ b = "F" -> "?"
    [] a = "2" /\ b = "3" -> "#"
    [] a = "2" /\ b = "6" -> "&"
    [] a = "3" /\ b = "D" -> "="
    [] a = "2" /\ b = "B" -> "+"
    [] OTHER              -> "%" \o a \o b

RECURSIVE QueryUnescape(_)
\* url.QueryUnescape of a string whose escapes are valid
QueryUnescape(s) ==
  IF s = <<>> THEN <<>>
  ELSE IF Head(s) = "+" THEN <<" ">> \o QueryUnescape(Tail(s))
  ELSE IF Head(s) = "%"
       THEN <<Unhex(s[2], s[3])>> \o QueryUnescape(SubSeq(s, 4, Len(s)))
       ELSE <<Head(s)>> \o QueryUnescape(Tail(s))

RECURSIVE ParseQuery(_)
\* url.ParseQuery: the key=value settings between the & separators, each cut
\* at its first = and unescaped; a setting with an invalid escape is dropped
ParseQuery(raw) ==
  IF raw = <<>> THEN <<>>
  ELSE LET a     == IndexOf(raw, "&")
           piece == IF a = 0 THEN raw ELSE SubSeq(raw, 1, a - 1)
           rest  == IF a = 0 THEN <<>> ELSE SubSeq(raw, a + 1, Len(raw))
           e     == IndexOf(piece, "=")
           key   == IF e = 0 THEN piece ELSE SubSeq(piece, 1, e - 1)
           value == IF e = 0 THEN <<>> ELSE SubSeq(piece, e + 1, Len(piece))
       IN  IF piece = <<>> \/ ~ValidEscapes(piece) THEN ParseQuery(rest)
           ELSE <<<<QueryUnescape(key), QueryUnescape(value)>>>> \o ParseQuery(rest)

\* network-list identifiers: empty, well-formed, one with an invalid escape
\* and one with a path delimiter
IDs == {<<>>, <<"L", "1">>, <<"%", "z">>, <<"a", "/", "b">>}

\* elements: none, a country code, and an address block (its / is escaped)
Elements == {<<>>, <<"G", "B">>, <<"1", "/", "8">>}

Names == {<<>>, <<"n">>}

SyncPoints == 0..MaxSyncPoint

\* the Environment values: zero, the two defined ones and one beyond them
Environments == {0, STAGING, PRODUCTION, 3}

\* the NetworkType values: zero, the two defined ones and one beyond them
NetworkTypes == {0, IP, GEO, 3}

OptionalParamsValues ==
  [Extended : BOOLEAN, IncludeElements : BOOLEAN]

\* a pointer field is nil or points to a value
Ptr(S) == {Nil} \cup {Some(v) : v \in S}

ListNetworkListsRequests ==
  [OptionalParams : Ptr(OptionalParamsValues), ListType : NetworkTypes,
   Search : {<<>>, <<"a", " ">>}]

GetNetworkListRequests ==
  [OptionalParams : Ptr(OptionalParamsValues), NetworkListID : IDs]

DeleteNetworkListRequests ==
  [GetNetworkListRequest : Ptr(GetNetworkListRequests)]

BodyNetworkListRequests ==
  [GetNetworkListRequest : Ptr(GetNetworkListRequests), Name : {<<"n">>},
   Type : {<<"GEO">>}, Description : {<<"d">>}, List : {<<"CH">>}]

CreateNetworkListRequests ==
  [BodyNetworkListRequest : Ptr(BodyNetworkListRequests)]

UpdateNetworkListRequests ==
  [BodyNetworkListRequest : Ptr(BodyNetworkListRequests), SyncPoint : SyncPoints]

AppendListRequests ==
  [List : {<<>>, <<"1.1.1.1">>}, NetworkListID : IDs]

AddElementRequests ==
  [NetworkListID : IDs, Element : Elements]

RemoveElementRequests ==
  [AddElementRequest : Ptr(AddElementRequests)]

GetActivationSnapshotRequests ==
  [NetworkListID : IDs, Extended : BOOLEAN, SyncPoint : SyncPoints]

ActivateNetworkListRequests ==
  [NetworkListID : IDs, Environment : Environments, Comments : {<<"c">>},
   NotificationRecipients : {<<"r">>}]

UpdateNetworkListDetailsRequests ==
  [Name : Names, Description : Names, NetworkListID : IDs]

----------------------------------------------------------------------------
(* Validate of each request type. *)

GetNetworkListRequestValidate(v) ==
  Filter([networkListId |-> RequiredString(v.NetworkListID)])

\* v.GetNetworkListRequest.NetworkListID goes through two embedded pointers
UpdateNetworkListRequestDerefs(v) ==
  /\ v.BodyNetworkListRequest # Nil
  /\ v.BodyNetworkListRequest[1].GetNetworkListRequest # Nil

UpdateNetworkListRequestValidate(v) ==
  Filter([networkListId |->
    RequiredString(v.BodyNetworkListRequest[1].GetNetworkListRequest[1].NetworkListID)])

AppendListRequestValidate(v) ==
  Filter([networkListId |-> RequiredString(v.NetworkListID)])

\* Validate of AddElementRequest if it checked the element only
AddElementRequestValidateElementOnly(v) ==
  Filter([element |-> RequiredString(v.Element)])

AddElementRequestValidate(v) ==
  Filter([networkListId |-> RequiredString(v.NetworkListID),
          element |-> RequiredString(v.Element)])

\* v.NetworkListID and v.Element go through the embedded pointer
RemoveElementRequestDerefs(v) == v.AddElementRequest # Nil

RemoveElementRequestValidate(v) ==
  Filter([networkListId |-> RequiredString(v.AddElementRequest[1].NetworkListID),
          element |-> RequiredString(v.AddElementRequest[1].Element)])

ActivateNetworkListRequestValidate(v) ==
  Filter([networkListId |-> RequiredString(v.NetworkListID),
          environment |-> RequiredInt(v.Environment)])

GetActivationSnapshotRequestValidate(v) ==
  Filter([networkListId |-> RequiredString(v.NetworkListID)])

UpdateNetworkListDetailsRequestValidate(v) ==
  Filter([networkListId |-> RequiredString(v.NetworkListID),
          name |-> RequiredString(v.Name),
          description |-> RequiredString(v.Description)])

----------------------------------------------------------------------------
(* encoding/json of the request bodies, by the struct tags.  A JSON object  *)
(* is a function from its keys; the fields of an embedded struct pointer   *)
(* are promoted, and dropped when the pointer is nil.  (ContractID and     *)
(* GroupID, both omitempty and never read by the client, are left out.)    *)

EmptyObject == [k \in {} |-> TRUE]

Merge(f, g) ==
  [k \in DOMAIN f \cup DOMAIN g |-> IF k \in DOMAIN f THEN f[k] ELSE g[k]]

MarshalOptionalParams(ptr) ==
  IF ptr = Nil THEN EmptyObject
  ELSE [Extended |-> ptr[1].Extended, IncludeElements |-> ptr[1].IncludeElements]

MarshalGetNetworkListRequest(ptr) ==
  IF ptr = Nil THEN EmptyObject
  ELSE Merge([NetworkListID |-> ptr[1].NetworkListID],
             MarshalOptionalParams(ptr[1].OptionalParams))

MarshalBodyNetworkListRequest(ptr) ==
  IF ptr = Nil THEN EmptyObject
  ELSE Merge([name |-> ptr[1].Name, type |-> ptr[1].Type,
              description |-> ptr[1].Description, list |-> ptr[1].List],
             MarshalGetNetworkListRequest(ptr[1].GetNetworkListRequest))

MarshalCreateNetworkListRequest(v) ==
  MarshalBodyNetworkListRequest(v.BodyNetworkListRequest)

\* the body of an update if syncPoint were tagged omitempty
MarshalUpdateNetworkListRequestOmitEmpty(v) ==
  Merge(IF v.SyncPoint = 0 THEN EmptyObject ELSE [syncPoint |-> v.SyncPoint],
        MarshalBodyNetworkListRequest(v.BodyNetworkListRequest))

MarshalUpdateNetworkListRequest(v) ==
  Merge([syncPoint |-> v.SyncPoint],
        MarshalBodyNetworkListRequest(v.BodyNetworkListRequest))

MarshalAppendListRequest(v) ==
  [list |-> v.List, NetworkListID |-> v.NetworkListID]

MarshalActivateNetworkListRequest(v) ==
  [NetworkListID |-> v.NetworkListID, Environment |-> v.Environment,
   comments |-> v.Comments, notificationRecipients |-> v.NotificationRecipients]

MarshalUpdateNetworkListDetailsRequest(v) ==
  [name |-> v.Name, description |-> v.Description,
   NetworkListID |-> v.NetworkListID]

----------------------------------------------------------------------------
(* The session: Exec and the structured-error extraction. *)

TransportErrors ==
  {[text |-> <<"dial tcp: connection refused">>, unwrap |-> Nil],
   [text |-> <<"json: unsupported value">>, unwrap |-> Nil]}

\* what Exec may have decoded into the target: nothing, or a response body
ZeroBody == [SyncPoint |-> 0, List |-> <<>>]

Bodies == {ZeroBody, [SyncPoint |-> 1, List |-> <<"GB">>]}

\* the outcomes of one Exec call: an error, or a response with its status
\* and the value left in the decode target (untouched without a target)
ExecOutcomes(out) ==
  {[err |-> Some(e), StatusCode |-> 0, decoded |-> ZeroBody] : e \in TransportErrors}
  \cup
  {[err |-> Nil, StatusCode |-> s, decoded |-> b] :
     s \in Statuses, b \in IF out THEN Bodies ELSE {ZeroBody}}

\* the session's Error(resp): a non-nil error value built from the response
Error(r) ==
  [text |-> <<"API error: status ">> \o Itoa(r.StatusCode), unwrap |-> Nil]

----------------------------------------------------------------------------
(* The steps every method is made of. *)

\* a method is entered with its request
Begin(o, p) ==
  /\ pc = "idle"
  /\ op' = o
  /\ params' = p
  /\ resp' = Nil
  /\ execCalls' = 0
  /\ errorCalls' = 0

\* return (result, err) before any Exec call
Return(result, err) ==
  /\ pc' = "idle"
  /\ req' = Nil
  /\ ret' = Some([result |-> result, err |-> err, panic |-> FALSE])

\* a run-time panic (nil pointer dereference, index out of range): the
\* method does not return
Panic ==
  /\ pc' = "idle"
  /\ req' = Nil
  /\ ret' = Some([result |-> Nil, err |-> Nil, panic |-> TRUE])

\* p.Exec(req, out, in...): the method blocks in the session
CallExec(r, rawQuery, out, in) ==
  /\ pc' = "exec"
  /\ ret' = Nil
  /\ req' = Some([Method |-> r.Method, Path |-> r.Path, RawQuery |-> rawQuery,
                  Out |-> out, In |-> in])

\* fmt.Errorf("%w: %s", ErrStructValidation, err.Error())
StructValidation(verr) ==
  Some(ErrorfWrapMsg(ErrStructValidation, ErrorsError(verr[1])))

\* the prefix each method puts before the error of a failed Exec call
RequestFailedPrefix(o) ==
  CASE o = "ListNetworkLists" -> "listnetworklists request failed"
    [] o = "GetNetworkList" -> "getetworklist request failed"
    [] o = "UpdateNetworkList" -> "updatenetworklist request failed"
    [] o = "CreateNetworkList" -> "createnetworklist request failed"
    [] o = "DeleteNetworkList" -> "deletenetworklist request failed"
    [] o = "AppendList" -> "appendnetworklist request failed"
    [] o = "AddElement" -> "addelement request failed"
    [] o = "RemoveElement" -> "removeelement request failed"
    [] o = "ActivateNetworkList" -> "activatenetworklist request failed"
    [] o = "GetActivationNetworkList" -> "getactivationnetworklist request failed"
    [] o = "GetActivationSnapshot" -> "getactivationsnapshot request failed"
    [] o = "UpdateNetworkListDetails" -> "updatenetworklistdetails request failed"
    [] o = "GetConfigs" -> "getconfigs request failed"
    [] o = "GetConfigVersions" -> "getconfigversions request failed"
    [] o = "GetPolicies" -> "getpolicies request failed"
    [] o = "GetRules" -> "getrules request failed"

\* from the return of Exec to the return of the method: the wrapped Exec
\* error, the session's error for an unexpected status, or the decoded value
AfterExec(o, prefix, success) ==
  /\ pc = "ret"
  /\ op = o
  /\ LET r == resp[1]
     IN  IF r.err # Nil
         THEN /\ ret' = Some([result |-> Nil,
                              err |-> Some(ErrorfWrap(prefix, r.err[1])),
                              panic |-> FALSE])
              /\ errorCalls' = errorCalls
         ELSE IF r.StatusCode # success
         THEN /\ ret' = Some([result |-> Nil, err |-> Some(Error(r)),
                              panic |-> FALSE])
              /\ errorCalls' = errorCalls + 1
         ELSE /\ ret' = Some([result |-> Some(r.decoded), err |-> Nil,
                              panic |-> FALSE])
              /\ errorCalls' = errorCalls
  /\ pc' = "idle"
  /\ UNCHANGED <<op, params, req, resp, execCalls>>

\* the session's Exec: one call, whose outcome the transport chooses
Exec ==
  /\ pc = "exec"
  /\ \E o \in ExecOutcomes(req[1].Out) : resp' = Some(o)
  /\ execCalls' = execCalls + 1
  /\ pc' = "ret"
  /\ UNCHANGED <<op, params, req, ret, errorCalls>>

\* req.URL.Query() as it would be if the client kept the query values of
\* its last request and handed them to the next invocation
QueryKeptByClient(r) ==
  IF req # Nil THEN ParseQuery(req[1].RawQuery) ELSE ParseQuery(r.RawQuery)

\* req.URL.Query(): the settings of the request URL's query so far (none
\* for a URL without query)
Query(r) == ParseQuery(r.RawQuery)

NetworkListsPath == <<"/network-list/v2/network-lists">>

----------------------------------------------------------------------------
(* The network-list client (src/netlist/network_list.go). *)

ListNetworkLists ==
  \E p \in ListNetworkListsRequests :
    /\ Begin("ListNetworkLists", p)
    /\ LET r  == NewRequestWithContext("GET", NetworkListsPath)
           q1 == Add(Add(Query(r), "extended", FormatBool(p.OptionalParams[1].Extended)),
                     "includeElements", FormatBool(p.OptionalParams[1].IncludeElements))
           q2 == IF p.Search # <<>> THEN Add(q1, "search", p.Search) ELSE q1
           q3 == IF p.ListType = IP THEN Add(q2, "listType", <<NetworkTypeString(IP)>>)
                 ELSE IF p.ListType = GEO THEN Add(q2, "listType", <<NetworkTypeString(GEO)>>)
                 ELSE q2
       IN  IF r.err # Nil
           THEN Return(Nil, Some(ErrorfWrap("failed to create listnetworklists request", r.err[1])))
           ELSE IF p.OptionalParams = Nil THEN Panic
           ELSE IF p.ListType = IP /\ NetworkTypeStringPanics(IP) THEN Panic
           ELSE IF p.ListType = GEO /\ NetworkTypeStringPanics(GEO) THEN Panic
           ELSE CallExec(r, Encode(q3), TRUE, Nil)

ListNetworkListsReturn ==
  AfterExec("ListNetworkLists", RequestFailedPrefix("ListNetworkLists"), StatusOK)

\* GetNetworkList as it would be without its request check
GetNetworkListUnchecked ==
  \E p \in GetNetworkListRequests :
    /\ Begin("GetNetworkList", p)
    /\ LET r == NewRequestWithContext("GET", NetworkListsPath \o <<"/">> \o p.NetworkListID)
           q == Add(Add(Query(r), "extended", FormatBool(p.OptionalParams[1].Extended)),
                    "includeElements", FormatBool(p.OptionalParams[1].IncludeElements))
       IN  IF r.err # Nil
           THEN Return(Nil, Some(ErrorfWrap("failed to create getnetworklist request", r.err[1])))
           ELSE IF p.OptionalParams = Nil THEN Panic
           ELSE CallExec(r, Encode(q), TRUE, Nil)

GetNetworkList ==
  \E p \in GetNetworkListRequests :
    /\ Begin("GetNetworkList", p)
    /\ LET verr == GetNetworkListRequestValidate(p)
           r    == NewRequestWithContext("GET", NetworkListsPath \o <<"/">> \o p.NetworkListID)
           q    == Add(Add(Query(r), "extended", FormatBool(p.OptionalParams[1].Extended)),
                       "includeElements", FormatBool(p.OptionalParams[1].IncludeElements))
       IN  IF verr # Nil THEN Return(Nil, StructValidation(verr))
           ELSE IF r.err # Nil
           THEN Return(Nil, Some(ErrorfWrap("failed to create getnetworklist request", r.err[1])))
           ELSE IF p.OptionalParams = Nil THEN Panic
           ELSE CallExec(r, Encode(q), TRUE, Nil)

GetNetworkListReturn ==
  AfterExec("GetNetworkList", RequestFailedPrefix("GetNetworkList"), StatusOK)

UpdateNetworkList ==
  \E p \in UpdateNetworkListRequests :
    /\ Begin("UpdateNetworkList", p)
    /\ IF ~UpdateNetworkListRequestDerefs(p) THEN Panic
       ELSE
       LET g    == p.BodyNetworkListRequest[1].GetNetworkListRequest[1]
           verr == UpdateNetworkListRequestValidate(p)
           r    == NewRequestWithContext("PUT", NetworkListsPath \o <<"/">> \o g.NetworkListID)
           q    == Add(Add(Query(r), "extended", FormatBool(g.OptionalParams[1].Extended)),
                       "includeElements", FormatBool(g.OptionalParams[1].IncludeElements))
       IN  IF verr # Nil THEN Return(Nil, StructValidation(verr))
           ELSE IF r.err # Nil
           THEN Return(Nil, Some(ErrorfWrap("failed to create updatenetworklist request", r.err[1])))
           ELSE IF g.OptionalParams = Nil THEN Panic
           ELSE CallExec(r, Encode(q), TRUE, Some(MarshalUpdateNetworkListRequest(p)))

UpdateNetworkListReturn ==
  AfterExec("UpdateNetworkList", RequestFailedPrefix("UpdateNetworkList"), StatusOK)

CreateNetworkList ==
  \E p \in CreateNetworkListRequests :
    /\ Begin("CreateNetworkList", p)
    /\ LET r == NewRequestWithContext("POST", NetworkListsPath)
       IN  IF r.err # Nil
           THEN Return(Nil, Some(ErrorfWrap("failed to create createnetworklist request", r.err[1])))
           ELSE CallExec(r, r.RawQuery, TRUE, Some(MarshalCreateNetworkListRequest(p)))

\* CreateNetworkList as it would be if it took 200 for success
CreateNetworkListReturnOn200 ==
  AfterExec("CreateNetworkList", RequestFailedPrefix("CreateNetworkList"), StatusOK)

CreateNetworkListReturn ==
  AfterExec("CreateNetworkList", RequestFailedPrefix("CreateNetworkList"), StatusCreated)

DeleteNetworkList ==
  \E p \in DeleteNetworkListRequests :
    /\ Begin("DeleteNetworkList", p)
    /\ IF p.GetNetworkListRequest = Nil THEN Panic
       ELSE
       LET g    == p.GetNetworkListRequest[1]
           verr == GetNetworkListRequestValidate(g)
           r    == NewRequestWithContext("DELETE", NetworkListsPath \o <<"/">> \o g.NetworkListID)
       IN  IF verr # Nil THEN Return(Nil, StructValidation(verr))
           ELSE IF r.err # Nil
           THEN Return(Nil, Some(ErrorfWrap("failed to create deletenetworklist request", r.err[1])))
           ELSE CallExec(r, r.RawQuery, TRUE, Nil)

DeleteNetworkListReturn ==
  AfterExec("DeleteNetworkList", RequestFailedPrefix("DeleteNetworkList"), StatusOK)

AppendList ==
  \E p \in AppendListRequests :
    /\ Begin("AppendList", p)
    /\ LET verr == AppendListRequestValidate(p)
           r    == NewRequestWithContext("POST",
                     NetworkListsPath \o <<"/">> \o p.NetworkListID \o <<"/append">>)
       IN  IF verr # Nil THEN Return(Nil, StructValidation(verr))
           ELSE IF r.err # Nil
           THEN Return(Nil, Some(ErrorfWrap("failed to create appendnetworklist request", r.err[1])))
           ELSE CallExec(r, r.RawQuery, TRUE, Some(MarshalAppendListRequest(p)))

\* AppendList as it would be if it took 200 for success
AppendListReturnOn200 ==
  AfterExec("AppendList", RequestFailedPrefix("AppendList"), StatusOK)

\* AppendList as it would be if it waited, after a response other than 202,
\* for the append to be accepted
AppendListReturnWaiting ==
  /\ resp # Nil
  /\ resp[1].err # Nil \/ resp[1].StatusCode = StatusAccepted
  /\ AfterExec("AppendList", RequestFailedPrefix("AppendList"), StatusAccepted)

AppendListReturn ==
  AfterExec("AppendList", RequestFailedPrefix("AppendList"), StatusAccepted)

\* AddElement as it would be if it sent the element as the body
AddElementInBody ==
  \E p \in AddElementRequests :
    /\ Begin("AddElement", p)
    /\ LET verr == AddElementRequestValidate(p)
           r    == NewRequestWithContext("PUT",
                     NetworkListsPath \o <<"/">> \o p.NetworkListID \o <<"/elements">>)
       IN  IF verr # Nil THEN Return(Nil, StructValidation(verr))
           ELSE IF r.err # Nil
           THEN Return(Nil, Some(ErrorfWrap("failed to create addelement request", r.err[1])))
           ELSE CallExec(r, r.RawQuery, TRUE, Some([element |-> p.Element]))

AddElement ==
  \E p \in AddElementRequests :
    /\ Begin("AddElement", p)
    /\ LET verr == AddElementRequestValidate(p)
           r    == NewRequestWithContext("PUT",
                     NetworkListsPath \o <<"/">> \o p.NetworkListID \o <<"/elements">>)
           q    == Add(Query(r), "element", p.Element)
       IN  IF verr # Nil THEN Return(Nil, StructValidation(verr))
           ELSE IF r.err # Nil
           THEN Return(Nil, Some(ErrorfWrap("failed to create addelement request", r.err[1])))
           ELSE CallExec(r, Encode(q), TRUE, Nil)

AddElementReturn ==
  AfterExec("AddElement", RequestFailedPrefix("AddElement"), StatusOK)

RemoveElement ==
  \E p \in RemoveElementRequests :
    /\ Begin("RemoveElement", p)
    /\ IF ~RemoveElementRequestDerefs(p) THEN Panic
       ELSE
       LET a    == p.AddElementRequest[1]
           verr == RemoveElementRequestValidate(p)
           r    == NewRequestWithContext("DELETE",
                     NetworkListsPath \o <<"/">> \o a.NetworkListID \o <<"/elements">>)
           q    == Add(Query(r), "element", a.Element)
       IN  IF verr # Nil THEN Return(Nil, StructValidation(verr))
           ELSE IF r.err # Nil
           THEN Return(Nil, Some(ErrorfWrap("failed to create removeelement request", r.err[1])))
           ELSE CallExec(r, Encode(q), TRUE, Nil)

RemoveElementReturn ==
  AfterExec("RemoveElement", RequestFailedPrefix("RemoveElement"), StatusOK)

ActivateNetworkList ==
  \E p \in ActivateNetworkListRequests :
    /\ Begin("ActivateNetworkList", p)
    /\ LET verr == ActivateNetworkListRequestValidate(p)
           r    == NewRequestWithContext("POST",
                     NetworkListsPath \o <<"/">> \o p.NetworkListID \o <<"/environments/">>
                     \o <<EnvironmentString(p.Environment)>> \o <<"/activate">>)
       IN  IF verr # Nil THEN Return(Nil, StructValidation(verr))
           ELSE IF EnvironmentStringPanics(p.Environment) THEN Panic
           ELSE IF r.err # Nil
           THEN Return(Nil, Some(ErrorfWrap("failed to create activatenetworklist request", r.err[1])))
           ELSE CallExec(r, r.RawQuery, TRUE, Some(MarshalActivateNetworkListRequest(p)))

ActivateNetworkListReturn ==
  AfterExec("ActivateNetworkList", RequestFailedPrefix("ActivateNetworkList"), StatusOK)

GetActivationNetworkList ==
  \E p \in ActivateNetworkListRequests :
    /\ Begin("GetActivationNetworkList", p)
    /\ LET verr == ActivateNetworkListRequestValidate(p)
           r    == NewRequestWithContext("GET",
                     NetworkListsPath \o <<"/">> \o p.NetworkListID \o <<"/environments/">>
                     \o <<EnvironmentString(p.Environment)>> \o <<"/status">>)
       IN  IF verr # Nil THEN Return(Nil, StructValidation(verr))
           ELSE IF EnvironmentStringPanics(p.Environment) THEN Panic
           ELSE IF r.err # Nil
           THEN Return(Nil, Some(ErrorfWrap("failed to create getactivationnetworklist request", r.err[1])))
           ELSE CallExec(r, r.RawQuery, TRUE, Nil)

GetActivationNetworkListReturn ==
  AfterExec("GetActivationNetworkList", RequestFailedPrefix("GetActivationNetworkList"), StatusOK)

GetActivationSnapshot ==
  \E p \in GetActivationSnapshotRequests :
    /\ Begin("GetActivationSnapshot", p)
    /\ LET verr == GetActivationSnapshotRequestValidate(p)
           r    == NewRequestWithContext("GET",
                     NetworkListsPath \o <<"/">> \o p.NetworkListID \o <<"/sync-points/">>
                     \o Itoa(p.SyncPoint) \o <<"/history">>)
           q    == Add(Query(r), "extended", FormatBool(p.Extended))
       IN  IF verr # Nil THEN Return(Nil, StructValidation(verr))
           ELSE IF r.err # Nil
           THEN Return(Nil, Some(ErrorfWrap("failed to create getactivationsnapshot request", r.err[1])))
           ELSE CallExec(r, Encode(q), TRUE, Nil)

GetActivationSnapshotReturn ==
  AfterExec("GetActivationSnapshot", RequestFailedPrefix("GetActivationSnapshot"), StatusOK)

UpdateNetworkListDetails ==
  \E p \in UpdateNetworkListDetailsRequests :
    /\ Begin("UpdateNetworkListDetails", p)
    /\ LET verr == UpdateNetworkListDetailsRequestValidate(p)
           r    == NewRequestWithContext("PUT",
                     NetworkListsPath \o <<"/">> \o p.NetworkListID \o <<"/details">>)
       IN  IF verr # Nil THEN Return(Nil, StructValidation(verr))
           ELSE IF r.err # Nil
           THEN Return(Nil, Some(ErrorfWrap("failed to create updatenetworklistdetails request", r.err[1])))
           ELSE CallExec(r, r.RawQuery, FALSE, Some(MarshalUpdateNetworkListDetailsRequest(p)))

\* UpdateNetworkListDetails as it would be if it took every 2xx for success
UpdateNetworkListDetailsReturnOn2xx ==
  /\ pc = "ret"
  /\ op = "UpdateNetworkListDetails"
  /\ LET r == resp[1]
     IN  IF r.err # Nil
         THEN /\ ret' = Some([result |-> Nil,
                              err |-> Some(ErrorfWrap(RequestFailedPrefix("UpdateNetworkListDetails"), r.err[1])),
                              panic |-> FALSE])
              /\ errorCalls' = errorCalls
         ELSE IF r.StatusCode < 200 \/ r.StatusCode > 299
         THEN /\ ret' = Some([result |-> Nil, err |-> Some(Error(r)), panic |-> FALSE])
              /\ errorCalls' = errorCalls + 1
         ELSE /\ ret' = Some([result |-> Nil, err |-> Nil, panic |-> FALSE])
              /\ errorCalls' = errorCalls
  /\ pc' = "idle"
  /\ UNCHANGED <<op, params, req, resp, execCalls>>

\* the method returns an error only: there is no result on any path
UpdateNetworkListDetailsReturn ==
  /\ pc = "ret"
  /\ op = "UpdateNetworkListDetails"
  /\ LET r == resp[1]
     IN  IF r.err # Nil
         THEN /\ ret' = Some([result |-> Nil,
                              err |-> Some(ErrorfWrap(RequestFailedPrefix("UpdateNetworkListDetails"), r.err[1])),
                              panic |-> FALSE])
              /\ errorCalls' = errorCalls
         ELSE IF r.StatusCode # StatusNoContent
         THEN /\ ret' = Some([result |-> Nil, err |-> Some(Error(r)), panic |-> FALSE])
              /\ errorCalls' = errorCalls + 1
         ELSE /\ ret' = Some([result |-> Nil, err |-> Nil, panic |-> FALSE])
              /\ errorCalls' = errorCalls
  /\ pc' = "idle"
  /\ UNCHANGED <<op, params, req, resp, execCalls>>

----------------------------------------------------------------------------
(* The appsec client (src/unnamed/part_000, src/appsec). *)

ConfigIDs == {0, 12}

VersionNumbers == {3}

\* policy identifiers: empty, well-formed, and one with an invalid escape
PolicyIDs == {<<>>, <<"P", "1">>, <<"%", "z">>}

\* the strings a caller passes as optional parameters of GetConfigVersions
ParamStrings == {<<"2">>, <<"x">>}

RECURSIVE SeqsUpTo(_, _)
\* the sequences over S of length at most n
SeqsUpTo(S, n) ==
  IF n = 0 THEN {<<>>}
  ELSE LET shorter == SeqsUpTo(S, n - 1)
       IN  shorter \cup {Append(t, x) : t \in {u \in shorter : Len(u) = n - 1}, x \in S}

GetConfigVersionsRequests ==
  [configID : ConfigIDs, params : SeqsUpTo(ParamStrings, MaxParams)]

GetPoliciesRequests ==
  [configID : ConfigIDs, versionNumber : VersionNumbers]

GetRulesRequests ==
  [configID : ConfigIDs, versionNumber : VersionNumbers, policyID : PolicyIDs]

GetConfigs ==
  /\ Begin("GetConfigs", Nil)
  /\ LET r == NewRequestWithContext("GET", <<"/appsec/v1/configs">>)
     IN  IF r.err # Nil
         THEN Return(Nil, Some(ErrorfWrap("failed to create getconfigs request", r.err[1])))
         ELSE CallExec(r, r.RawQuery, TRUE, Nil)

GetConfigsReturn ==
  AfterExec("GetConfigs", RequestFailedPrefix("GetConfigs"), StatusOK)

\* GetConfigVersions as it would be if a single parameter were the page
configVersionsURLPageFirst(configID, ps) ==
  LET base == <<"/appsec/v1/configs/">> \o Itoa(configID) \o <<"/versions", "?">>
  IN  CASE Len(ps) = 1 -> base \o <<"page", "=">> \o ps[1]
        [] Len(ps) = 2 -> base \o <<"page", "=">> \o ps[1] \o <<"&", "pageSize", "=">> \o ps[2]
        [] Len(ps) = 3 -> base \o <<"page", "=">> \o ps[1] \o <<"&", "pageSize", "=">> \o ps[2]
                               \o <<"&", "detail", "=">> \o ps[3]
        [] OTHER       -> base \o <<"page", "=">> \o Itoa(1) \o <<"&", "pageSize", "=">> \o Itoa(25)
                               \o <<"&", "detail", "=">> \o <<"true">>

\* the URL of GetConfigVersions, by the number of optional parameters
configVersionsURL(configID, ps) ==
  LET base == <<"/appsec/v1/configs/">> \o Itoa(configID) \o <<"/versions", "?">>
  IN  CASE Len(ps) = 1 -> base \o <<"detail", "=">> \o ps[1]
        [] Len(ps) = 2 -> base \o <<"page", "=">> \o ps[1] \o <<"&", "pageSize", "=">> \o ps[2]
        [] Len(ps) = 3 -> base \o <<"page", "=">> \o ps[1] \o <<"&", "pageSize", "=">> \o ps[2]
                               \o <<"&", "detail", "=">> \o ps[3]
        [] OTHER       -> base \o <<"page", "=">> \o Itoa(1) \o <<"&", "pageSize", "=">> \o Itoa(25)
                               \o <<"&", "detail", "=">> \o <<"true">>

GetConfigVersions ==
  \E p \in GetConfigVersionsRequests :
    /\ Begin("GetConfigVersions", p)
    /\ LET r == NewRequestWithContext("GET", configVersionsURL(p.configID, p.params))
       IN  IF r.err # Nil
           THEN Return(Nil, Some(ErrorfWrap("failed to create getconfigversions request", r.err[1])))
           ELSE CallExec(r, r.RawQuery, TRUE, Nil)

GetConfigVersionsReturn ==
  AfterExec("GetConfigVersions", RequestFailedPrefix("GetConfigVersions"), StatusOK)

GetPolicies ==
  \E p \in GetPoliciesRequests :
    /\ Begin("GetPolicies", p)
    /\ LET r == NewRequestWithContext("GET",
                  <<"/appsec/v1/configs/">> \o Itoa(p.configID) \o <<"/versions/">>
                  \o Itoa(p.versionNumber) \o <<"/security-policies">>)
       IN  IF r.err # Nil
           THEN Return(Nil, Some(ErrorfWrap("failed to create getconfigs request", r.err[1])))
           ELSE CallExec(r, r.RawQuery, TRUE, Nil)

GetPoliciesReturn ==
  AfterExec("GetPolicies", RequestFailedPrefix("GetPolicies"), StatusOK)

GetRules ==
  \E p \in GetRulesRequests :
    /\ Begin("GetRules", p)
    /\ LET r == NewRequestWithContext("GET",
                  <<"/appsec/v1/configs/">> \o Itoa(p.configID) \o <<"/versions/">>
                  \o Itoa(p.versionNumber) \o <<"/security-policies/">> \o p.policyID
                  \o <<"/rules">>)
       IN  IF r.err # Nil
           THEN Return(Nil, Some(ErrorfWrap("failed to create getconfigs request", r.err[1])))
           ELSE CallExec(r, r.RawQuery, TRUE, Nil)

GetRulesReturn ==
  AfterExec("GetRules", RequestFailedPrefix("GetRules"), StatusOK)

----------------------------------------------------------------------------
(* The specification. *)

Init ==
  /\ pc = "idle"
  /\ op = "none"
  /\ params = Nil
  /\ req = Nil
  /\ resp = Nil
  /\ ret = Nil
  /\ execCalls = 0
  /\ errorCalls = 0

Next ==
  \/ ListNetworkLists \/ ListNetworkListsReturn
  \/ GetNetworkList \/ GetNetworkListReturn
  \/ UpdateNetworkList \/ UpdateNetworkListReturn
  \/ CreateNetworkList \/ CreateNetworkListReturn
  \/ DeleteNetworkList \/ DeleteNetworkListReturn
  \/ AppendList \/ AppendListReturn
  \/ AddElement \/ AddElementReturn
  \/ RemoveElement \/ RemoveElementReturn
  \/ ActivateNetworkList \/ ActivateNetworkListReturn
  \/ GetActivationNetworkList \/ GetActivationNetworkListReturn
  \/ GetActivationSnapshot \/ GetActivationSnapshotReturn
  \/ UpdateNetworkListDetails \/ UpdateNetworkListDetailsReturn
  \/ GetConfigs \/ GetConfigsReturn
  \/ GetConfigVersions \/ GetConfigVersionsReturn
  \/ GetPolicies \/ GetPoliciesReturn
  \/ GetRules \/ GetRulesReturn
  \/ Exec

Spec == Init /\ [][Next]_vars

\* the step by which a method returns after its Exec call
MethodReturns ==
  \/ ListNetworkListsReturn \/ GetNetworkListReturn \/ UpdateNetworkListReturn
  \/ CreateNetworkListReturn \/ DeleteNetworkListReturn \/ AppendListReturn
  \/ AddElementReturn \/ RemoveElementReturn \/ ActivateNetworkListReturn
  \/ GetActivationNetworkListReturn \/ GetActivationSnapshotReturn
  \/ UpdateNetworkListDetailsReturn
  \/ GetConfigsReturn \/ GetConfigVersionsReturn \/ GetPoliciesReturn
  \/ GetRulesReturn

\* the transport call returns, and the calling thread keeps running the
\* method it is in
SpecLive == Init /\ [][Next]_vars /\ WF_vars(Exec) /\ WF_vars(MethodReturns)

----------------------------------------------------------------------------
(* Two invocations of UpdateNetworkList that run concurrently on one client,
   for the same network list.  The arguments and locals of a method (params,
   req, rval, resp, err) belong to the invocation: here each variable is a
   function of the invocation.  The client itself holds the session only. *)

Invocations == {1, 2}

\* the update requests for list L1 that UpdateNetworkList can read throughout
ConcurrentUpdateRequests ==
  {p \in UpdateNetworkListRequests :
     /\ UpdateNetworkListRequestDerefs(p)
     /\ p.BodyNetworkListRequest[1].GetNetworkListRequest[1].OptionalParams # Nil
     /\ p.BodyNetworkListRequest[1].GetNetworkListRequest[1].NetworkListID = <<"L", "1">>}

ConcurrentInit ==
  /\ pc = [i \in Invocations |-> "idle"]
  /\ op = [i \in Invocations |-> "none"]
  /\ params = [i \in Invocations |-> Nil]
  /\ req = [i \in Invocations |-> Nil]
  /\ resp = [i \in Invocations |-> Nil]
  /\ ret = [i \in Invocations |-> Nil]
  /\ execCalls = [i \in Invocations |-> 0]
  /\ errorCalls = [i \in Invocations |-> 0]

\* UpdateNetworkList as it would be if the client let one call at a time
\* into the session
UpdateNetworkListBySerialized(i) ==
  \E p \in ConcurrentUpdateRequests :
    /\ pc[i] = "idle"
    /\ \A j \in Invocations : pc[j] \notin {"exec", "ret"}
    /\ op' = [op EXCEPT ![i] = "UpdateNetworkList"]
    /\ params' = [params EXCEPT ![i] = p]
    /\ LET g == p.BodyNetworkListRequest[1].GetNetworkListRequest[1]
           r == NewRequestWithContext("PUT", NetworkListsPath \o <<"/">> \o g.NetworkListID)
           q == Add(Add(Query(r), "extended", FormatBool(g.OptionalParams[1].Extended)),
                    "includeElements", FormatBool(g.OptionalParams[1].IncludeElements))
       IN  /\ pc' = [pc EXCEPT ![i] = "exec"]
           /\ req' = [req EXCEPT ![i] =
                        Some([Method |-> r.Method, Path |-> r.Path, RawQuery |-> Encode(q),
                              Out |-> TRUE, In |-> Some(MarshalUpdateNetworkListRequest(p))])]
           /\ ret' = ret
    /\ UNCHANGED <<resp, execCalls, errorCalls>>

\* invocation i enters UpdateNetworkList and runs up to its Exec call, or to
\* the return of a validation or request-construction error
UpdateNetworkListBy(i) ==
  \E p \in ConcurrentUpdateRequests :
    /\ pc[i] = "idle"
    /\ op' = [op EXCEPT ![i] = "UpdateNetworkList"]
    /\ params' = [params EXCEPT ![i] = p]
    /\ LET g    == p.BodyNetworkListRequest[1].GetNetworkListRequest[1]
           verr == UpdateNetworkListRequestValidate(p)
           r    == NewRequestWithContext("PUT", NetworkListsPath \o <<"/">> \o g.NetworkListID)
           q    == Add(Add(Query(r), "extended", FormatBool(g.OptionalParams[1].Extended)),
                       "includeElements", FormatBool(g.OptionalParams[1].IncludeElements))
       IN  IF verr # Nil
           THEN /\ pc' = [pc EXCEPT ![i] = "done"]
                /\ req' = req
                /\ ret' = [ret EXCEPT ![i] =
                             Some([result |-> Nil, err |-> StructValidation(verr),
                                   panic |-> FALSE])]
           ELSE IF r.err # Nil
           THEN /\ pc' = [pc EXCEPT ![i] = "done"]
                /\ req' = req
                /\ ret' = [ret EXCEPT ![i] =
                             Some([result |-> Nil,
                                   err |-> Some(ErrorfWrap("failed to create updatenetworklist request", r.err[1])),
                                   panic |-> FALSE])]
           ELSE /\ pc' = [pc EXCEPT ![i] = "exec"]
                /\ req' = [req EXCEPT ![i] =
                             Some([Method |-> r.Method, Path |-> r.Path,
                                   RawQuery |-> Encode(q), Out |-> TRUE,
                                   In |-> Some(MarshalUpdateNetworkListRequest(p))])]
                /\ ret' = ret
    /\ UNCHANGED <<resp, execCalls, errorCalls>>

\* the session's Exec for the request of invocation i: the service answers
\* as it sees fit (it may accept the update or reject its sync point)
ExecBy(i) ==
  /\ pc[i] = "exec"
  /\ \E o \in ExecOutcomes(req[i][1].Out) : resp' = [resp EXCEPT ![i] = Some(o)]
  /\ execCalls' = [execCalls EXCEPT ![i] = @ + 1]
  /\ pc' = [pc EXCEPT ![i] = "ret"]
  /\ UNCHANGED <<op, params, req, ret, errorCalls>>

\* what UpdateNetworkList returns for the outcome r of its Exec call
UpdateNetworkListResult(r) ==
  IF r.err # Nil
  THEN [result |-> Nil,
        err |-> Some(ErrorfWrap(RequestFailedPrefix("UpdateNetworkList"), r.err[1])),
        panic |-> FALSE]
  ELSE IF r.StatusCode # StatusOK
  THEN [result |-> Nil, err |-> Some(Error(r)), panic |-> FALSE]
  ELSE [result |-> Some(r.decoded), err |-> Nil, panic |-> FALSE]

\* invocation i returns from UpdateNetworkList after its Exec call
UpdateNetworkListReturnBy(i) ==
  /\ pc[i] = "ret"
  /\ ret' = [ret EXCEPT ![i] = Some(UpdateNetworkListResult(resp[i][1]))]
  /\ errorCalls' = [errorCalls EXCEPT ![i] =
                      IF resp[i][1].err = Nil /\ resp[i][1].StatusCode # StatusOK
                      THEN @ + 1 ELSE @]
  /\ pc' = [pc EXCEPT ![i] = "done"]
  /\ UNCHANGED <<op, params, req, resp, execCalls>>

ConcurrentNext ==
  \E i \in Invocations :
    \/ UpdateNetworkListBy(i)
    \/ ExecBy(i)
    \/ UpdateNetworkListReturnBy(i)

SpecConcurrent == ConcurrentInit /\ [][ConcurrentNext]_vars

----------------------------------------------------------------------------
(* tools.CheckAccountID (src/unnamed/part_001), applied to a request.  params
   holds the arguments as they were passed, req the request after the call. *)

\* the interface{} values a caller passes as accountID: nil, strings, and
\* values of other dynamic types
AccountIDs ==
  {Nil,
   Some([type |-> "string", value |-> <<"A", "1">>]),
   Some([type |-> "string", value |-> <<>>]),
   Some([type |-> "int", value |-> <<"7">>]),
   Some([type |-> "[]byte", value |-> <<"A", "1">>])}

\* the requests it is applied to: built by http.NewRequestWithContext from a
\* URI with or without a query
CheckedURIs ==
  {path \o query :
     path \in {<<"/appsec/v1/configs">>,
               <<"/appsec/v1/configs/">> \o Itoa(12) \o <<"/versions">>,
               NetworkListsPath,
               NetworkListsPath \o <<"/", "L", "1">>},
     query \in {<<>>,
                <<"?", "extended", "=", "true">>,
                <<"?", "accountSwitchKey", "=", "B">>}}

ToolsInit ==
  /\ pc = "idle"
  /\ op = "CheckAccountID"
  /\ \E a \in AccountIDs, u \in CheckedURIs :
       /\ params = [accountID |-> a, req |-> NewRequestWithContext("GET", u)]
       /\ req = Some(NewRequestWithContext("GET", u))
  /\ resp = Nil
  /\ ret = Nil
  /\ execCalls = 0
  /\ errorCalls = 0

\* CheckAccountID(accountID, req): for a string, req.URL.Query() parses the
\* query into a new url.Values, Add extends that value, and the value is
\* dropped; nothing is stored into req
CheckAccountID ==
  /\ pc = "idle"
  /\ op = "CheckAccountID"
  /\ IF params.accountID # Nil /\ params.accountID[1].type = "string"
     THEN LET q == Add(Query(req[1]), "accountSwitchKey", params.accountID[1].value)
          IN  req' = req
     ELSE req' = req
  /\ pc' = "done"
  /\ UNCHANGED <<op, params, resp, ret, execCalls, errorCalls>>

ToolsNext == CheckAccountID

SpecTools == ToolsInit /\ [][ToolsNext]_vars

----------------------------------------------------------------------------
(* The superseded definition of the network-list client
   (src/unnamed/part_002).  A method is a function of its request value and
   of the answer of the transport: it is given here as the set of ways one
   call can go.  A way records what was handed to Exec (sent), what Exec
   gave back (answer) and what the method returned (result, err), or that
   it panicked. *)

\* IP NetworkType = iota; GEO follows
SupersededIP == 0

SupersededGEO == 1

\* [...]string{"IP", "GEO"}[n]; out of range panics
SupersededNetworkTypeStringPanics(n) == n < 0 \/ n > 1

SupersededNetworkTypeString(n) == <<"IP", "GEO">>[n + 1]

\* the method panics: it hands nothing to Exec and returns nothing
Panicked ==
  [panic |-> TRUE, sent |-> Nil, answer |-> Nil, result |-> Nil, err |-> Nil]

\* the method returns err before any Exec call
Refused(err) ==
  [panic |-> FALSE, sent |-> Nil, answer |-> Nil, result |-> Nil, err |-> err]

\* resp, err := p.Exec(req, &rval, in...) and the three returns after it
Executed(r, rawQuery, in, a, failedPrefix, success) ==
  [panic |-> FALSE,
   sent |-> Some([Method |-> r.Method, Path |-> r.Path, RawQuery |-> rawQuery,
                  Out |-> TRUE, In |-> in]),
   answer |-> Some(a),
   result |-> IF a.err = Nil /\ a.StatusCode = success THEN Some(a.decoded) ELSE Nil,
   err |-> IF a.err # Nil THEN Some(ErrorfWrap(failedPrefix, a.err[1]))
           ELSE IF a.StatusCode # success THEN Some(Error(a))
           ELSE Nil]

\* encoding/json of the superseded request bodies: extended and
\* includeElements are tagged omitempty, the identifiers are tagged "-"
SupersededMarshalOptionalParams(ptr) ==
  IF ptr = Nil THEN EmptyObject
  ELSE Merge(IF ptr[1].Extended THEN [extended |-> TRUE] ELSE EmptyObject,
             IF ptr[1].IncludeElements THEN [includeElements |-> TRUE] ELSE EmptyObject)

SupersededMarshalGetNetworkListRequest(ptr) ==
  IF ptr = Nil THEN EmptyObject
  ELSE SupersededMarshalOptionalParams(ptr[1].OptionalParams)

SupersededMarshalBodyNetworkListRequest(ptr) ==
  IF ptr = Nil THEN EmptyObject
  ELSE Merge([name |-> ptr[1].Name, type |-> ptr[1].Type,
              description |-> ptr[1].Description, list |-> ptr[1].List],
             SupersededMarshalGetNetworkListRequest(ptr[1].GetNetworkListRequest))

SupersededMarshalCreateNetworkListRequest(v) ==
  SupersededMarshalBodyNetworkListRequest(v.BodyNetworkListRequest)

SupersededMarshalUpdateNetworkListRequest(v) ==
  Merge([syncPoint |-> v.SyncPoint],
        SupersededMarshalBodyNetworkListRequest(v.BodyNetworkListRequest))

SupersededMarshalAppendListRequest(v) == [list |-> v.List]

SupersededListNetworkLists(p, answers) ==
  LET r  == NewRequestWithContext("GET", NetworkListsPath)
      q1 == Add(Add(Query(r), "extended", FormatBool(p.OptionalParams[1].Extended)),
                "includeElements", FormatBool(p.OptionalParams[1].IncludeElements))
      q2 == IF p.Search # <<>> THEN Add(q1, "search", p.Search) ELSE q1
      q3 == IF p.ListType = SupersededIP
            THEN Add(q2, "listType", <<SupersededNetworkTypeString(SupersededIP)>>)
            ELSE IF p.ListType = SupersededGEO
            THEN Add(q2, "listType", <<SupersededNetworkTypeString(SupersededGEO)>>)
            ELSE q2
  IN  IF r.err # Nil
      THEN {Refused(Some(ErrorfWrap("failed to create listnetworklists request", r.err[1])))}
      ELSE IF p.OptionalParams = Nil THEN {Panicked}
      ELSE {Executed(r, Encode(q3), Nil, a, "listnetworklists request failed", StatusOK) :
              a \in answers}

SupersededGetNetworkList(p, answers) ==
  LET verr == GetNetworkListRequestValidate(p)
      r    == NewRequestWithContext("GET", NetworkListsPath \o <<"/">> \o p.NetworkListID)
      q    == Add(Add(Query(r), "extended", FormatBool(p.OptionalParams[1].Extended)),
                  "includeElements", FormatBool(p.OptionalParams[1].IncludeElements))
  IN  IF verr # Nil THEN {Refused(StructValidation(verr))}
      ELSE IF r.err # Nil
      THEN {Refused(Some(ErrorfWrap("failed to create getnetworklist request", r.err[1])))}
      ELSE IF p.OptionalParams = Nil THEN {Panicked}
      ELSE {Executed(r, Encode(q), Nil, a, "getetworklist request failed", StatusOK) :
              a \in answers}

SupersededUpdateNetworkList(p, answers) ==
  IF ~UpdateNetworkListRequestDerefs(p) THEN {Panicked}
  ELSE
  LET g    == p.BodyNetworkListRequest[1].GetNetworkListRequest[1]
      verr == UpdateNetworkListRequestValidate(p)
      r    == NewRequestWithContext("PUT", NetworkListsPath \o <<"/">> \o g.NetworkListID)
      q    == Add(Add(Query(r), "extended", FormatBool(g.OptionalParams[1].Extended)),
                  "includeElements", FormatBool(g.OptionalParams[1].IncludeElements))
  IN  IF verr # Nil THEN {Refused(StructValidation(verr))}
      ELSE IF r.err # Nil
      THEN {Refused(Some(ErrorfWrap("failed to create updatenetworklist request", r.err[1])))}
      ELSE IF g.OptionalParams = Nil THEN {Panicked}
      ELSE {Executed(r, Encode(q), Some(SupersededMarshalUpdateNetworkListRequest(p)), a,
                     "updatenetworklist request failed", StatusOK) : a \in answers}

SupersededCreateNetworkList(p, answers) ==
  LET r == NewRequestWithContext("POST", NetworkListsPath)
  IN  IF r.err # Nil
      THEN {Refused(Some(ErrorfWrap("failed to create createnetworklist request", r.err[1])))}
      ELSE {Executed(r, r.RawQuery, Some(SupersededMarshalCreateNetworkListRequest(p)), a,
                     "createnetworklist request failed", StatusCreated) : a \in answers}

SupersededDeleteNetworkList(p, answers) ==
  IF p.GetNetworkListRequest = Nil THEN {Panicked}
  ELSE
  LET g    == p.GetNetworkListRequest[1]
      verr == GetNetworkListRequestValidate(g)
      r    == NewRequestWithContext("DELETE", NetworkListsPath \o <<"/">> \o g.NetworkListID)
  IN  IF verr # Nil THEN {Refused(StructValidation(verr))}
      ELSE IF r.err # Nil
      THEN {Refused(Some(ErrorfWrap("failed to create deletenetworklist request", r.err[1])))}
      ELSE {Executed(r, r.RawQuery, Nil, a, "deletenetworklist request failed", StatusOK) :
              a \in answers}

SupersededAppendList(p, answers) ==
  LET verr == AppendListRequestValidate(p)
      r    == NewRequestWithContext("POST",
                NetworkListsPath \o <<"/">> \o p.NetworkListID \o <<"/append">>)
  IN  IF verr # Nil THEN {Refused(StructValidation(verr))}
      ELSE IF r.err # Nil
      THEN {Refused(Some(ErrorfWrap("failed to create appendnetworklist request", r.err[1])))}
      ELSE {Executed(r, r.RawQuery, Some(SupersededMarshalAppendListRequest(p)), a,
                     "appendnetworklist request failed", StatusAccepted) : a \in answers}

SupersededAddElement(p, answers) ==
  LET verr == AddElementRequestValidate(p)
      r    == NewRequestWithContext("PUT",
                NetworkListsPath \o <<"/">> \o p.NetworkListID \o <<"/elements">>)
      q    == Add(Query(r), "element", p.Element)
  IN  IF verr # Nil THEN {Refused(StructValidation(verr))}
      ELSE IF r.err # Nil
      THEN {Refused(Some(ErrorfWrap("failed to create addelement request", r.err[1])))}
      ELSE {Executed(r, Encode(q), Nil, a, "addelement request failed", StatusOK) :
              a \in answers}

SupersededRemoveElement(p, answers) ==
  IF ~RemoveElementRequestDerefs(p) THEN {Panicked}
  ELSE
  LET e    == p.AddElementRequest[1]
      verr == RemoveElementRequestValidate(p)
      r    == NewRequestWithContext("DELETE",
                NetworkListsPath \o <<"/">> \o e.NetworkListID \o <<"/elements">>)
      q    == Add(Query(r), "element", e.Element)
  IN  IF verr # Nil THEN {Refused(StructValidation(verr))}
      ELSE IF r.err # Nil
      THEN {Refused(Some(ErrorfWrap("failed to create removeelement request", r.err[1])))}
      ELSE {Executed(r, Encode(q), Nil, a, "removeelement request failed", StatusOK) :
              a \in answers}

----------------------------------------------------------------------------
(* The later client's methods that the current driver calls, each as the set
   of ways one call can go (src/netlist/network_list.go). *)

AppendListWays(p, answers) ==
  LET verr == AppendListRequestValidate(p)
      r    == NewRequestWithContext("POST",
                NetworkListsPath \o <<"/">> \o p.NetworkListID \o <<"/append">>)
  IN  IF verr # Nil THEN {Refused(StructValidation(verr))}
      ELSE IF r.err # Nil
      THEN {Refused(Some(ErrorfWrap("failed to create appendnetworklist request", r.err[1])))}
      ELSE {Executed(r, r.RawQuery, Some(MarshalAppendListRequest(p)), a,
                     "appendnetworklist request failed", StatusAccepted) : a \in answers}

ActivateNetworkListWays(p, answers) ==
  LET verr == ActivateNetworkListRequestValidate(p)
      r    == NewRequestWithContext("POST",
                NetworkListsPath \o <<"/">> \o p.NetworkListID \o <<"/environments/">>
                \o <<EnvironmentString(p.Environment)>> \o <<"/activate">>)
  IN  IF verr # Nil THEN {Refused(StructValidation(verr))}
      ELSE IF EnvironmentStringPanics(p.Environment) THEN {Panicked}
      ELSE IF r.err # Nil
      THEN {Refused(Some(ErrorfWrap("failed to create activatenetworklist request", r.err[1])))}
      ELSE {Executed(r, r.RawQuery, Some(MarshalActivateNetworkListRequest(p)), a,
                     "activatenetworklist request failed", StatusOK) : a \in answers}

GetActivationNetworkListWays(p, answers) ==
  LET verr == ActivateNetworkListRequestValidate(p)
      r    == NewRequestWithContext("GET",
                NetworkListsPath \o <<"/">> \o p.NetworkListID \o <<"/environments/">>
                \o <<EnvironmentString(p.Environment)>> \o <<"/status">>)
  IN  IF verr # Nil THEN {Refused(StructValidation(verr))}
      ELSE IF EnvironmentStringPanics(p.Environment) THEN {Panicked}
      ELSE IF r.err # Nil
      THEN {Refused(Some(ErrorfWrap("failed to create getactivationnetworklist request", r.err[1])))}
      ELSE {Executed(r, r.RawQuery, Nil, a,
                     "getactivationnetworklist request failed", StatusOK) : a \in answers}

GetActivationSnapshotWays(p, answers) ==
  LET verr == GetActivationSnapshotRequestValidate(p)
      r    == NewRequestWithContext("GET",
                NetworkListsPath \o <<"/">> \o p.NetworkListID \o <<"/sync-points/">>
                \o Itoa(p.SyncPoint) \o <<"/history">>)
      q    == Add(Query(r), "extended", FormatBool(p.Extended))
  IN  IF verr # Nil THEN {Refused(StructValidation(verr))}
      ELSE IF r.err # Nil
      THEN {Refused(Some(ErrorfWrap("failed to create getactivationsnapshot request", r.err[1])))}
      ELSE {Executed(r, Encode(q), Nil, a,
                     "getactivationsnapshot request failed", StatusOK) : a \in answers}

\* Exec is given no target, and the method returns an error only
UpdateNetworkListDetailsWays(p, answers) ==
  LET verr == UpdateNetworkListDetailsRequestValidate(p)
      r    == NewRequestWithContext("PUT",
                NetworkListsPath \o <<"/">> \o p.NetworkListID \o <<"/details">>)
  IN  IF verr # Nil THEN {Refused(StructValidation(verr))}
      ELSE IF r.err # Nil
      THEN {Refused(Some(ErrorfWrap("failed to create updatenetworklistdetails request", r.err[1])))}
      ELSE {[Executed(r, r.RawQuery, Some(MarshalUpdateNetworkListDetailsRequest(p)), a,
                      "updatenetworklistdetails request failed", StatusNoContent)
               EXCEPT !.result = Nil, !.sent = Some([@[1] EXCEPT !.Out = FALSE])] :
              a \in answers}

----------------------------------------------------------------------------
(* The two drivers: main of the older driver (src/appsec/policies.go, from
   line 72), which runs create, get, update, delete on one list against the
   client it was written for (src/unnamed/part_002), and main of the current
   driver (src/main.go).  Here
     op         is the driver that runs,
     pc         the statement of main that runs next ("exit": main returned,
                "fatal": log.Fatalf ended the process, "panic": a run-time
                panic ended it),
     params     the locals of main,
     req, resp  the requests handed to the transport and its answers, in
                order, each with the driver function that made the call,
     ret        the calls of client methods main has made, in order, with
                the error each ended in,
     execCalls  the number of calls of the transport,
     errorCalls the number of lines written by log.Errorf. *)

Older == "appsec/policies.go"

Current == "main.go"

\* the identifiers the service gives to a created list
UniqueIDs == {<<>>, <<"L", "1">>, <<"%", "z">>}

\* what the service answers about a list
NetworkListResponses == [UniqueID : UniqueIDs, SyncPoint : SyncPoints]

ServiceAnswers ==
  {[err |-> Some(e), StatusCode |-> 0,
    decoded |-> [UniqueID |-> <<>>, SyncPoint |-> 0]] : e \in TransportErrors}
  \cup
  {[err |-> Nil, StatusCode |-> s, decoded |-> b] :
     s \in Statuses, b \in NetworkListResponses}

\* the contracts the account has: none, or one
ContractsAnswers ==
  {[err |-> Some(e), StatusCode |-> 0, decoded |-> <<>>] : e \in TransportErrors}
  \cup
  {[err |-> Nil, StatusCode |-> StatusOK, decoded |-> c] : c \in {<<>>, <<"ctr_1">>}}

\* countries := ISOCountries()
countries == <<"CH", "GB">>

DriverInit ==
  /\ op \in {Older, Current}
  /\ pc = "AuthSession"
  /\ params = [contractID |-> <<>>, listID |-> <<>>]
  /\ req = <<>>
  /\ resp = <<>>
  /\ ret = <<>>
  /\ execCalls = 0
  /\ errorCalls = 0

\* the driver function call has called a client method, which went the way c
Called(call, c) ==
  /\ req' = IF c.sent # Nil
            THEN Append(req, [call |-> call, request |-> c.sent[1]]) ELSE req
  /\ resp' = IF c.answer # Nil
             THEN Append(resp, [call |-> call, answer |-> c.answer[1]]) ELSE resp
  /\ execCalls' = execCalls + (IF c.sent # Nil THEN 1 ELSE 0)
  /\ ret' = Append(ret, [call |-> call, panic |-> c.panic, err |-> c.err])

\* AuthSession(): edgegrid.Must panics without a credentials file;
\* session.New may fail, which the older driver takes for fatal inside
\* AuthSession and the current one in main
AuthSession ==
  /\ pc = "AuthSession"
  /\ \E outcome \in {"panic", "fatal", "session"} :
       pc' = IF outcome # "session" THEN outcome
             ELSE IF op = Older THEN "getContractsGeneric"
             ELSE "appendIPNetworkList"
  /\ UNCHANGED <<op, params, req, resp, ret, execCalls, errorCalls>>

\* getContractsGeneric(session): one Exec call on the session itself; a
\* failed call is fatal, and contracts[0] panics when there is no contract
getContractsGeneric ==
  /\ op = Older
  /\ pc = "getContractsGeneric"
  /\ \E a \in ContractsAnswers :
       /\ req' = Append(req, [call |-> "getContractsGeneric",
                              request |-> [Method |-> "GET",
                                           Path |-> <<"/papi/v1/contracts">>,
                                           RawQuery |-> <<>>, Out |-> TRUE,
                                           In |-> Nil]])
       /\ resp' = Append(resp, [call |-> "getContractsGeneric", answer |-> a])
       /\ execCalls' = execCalls + 1
       /\ IF a.err # Nil THEN pc' = "fatal" /\ params' = params
          ELSE IF a.decoded = <<>> THEN pc' = "panic" /\ params' = params
          ELSE /\ pc' = "createNetworkList"
               /\ params' = [params EXCEPT !.contractID = <<a.decoded[1]>>]
  /\ UNCHANGED <<op, ret, errorCalls>>

\* listGEO := createNetworkList(ctx, netlistClient, netlist.GEO, countries, params)
createNetworkList ==
  /\ op = Older
  /\ pc = "createNetworkList"
  /\ IF SupersededNetworkTypeStringPanics(SupersededGEO)
     THEN pc' = "panic" /\ UNCHANGED <<params, req, resp, ret, execCalls>>
     ELSE
     LET p == [BodyNetworkListRequest |-> Some(
                 [GetNetworkListRequest |-> Nil,
                  Name |-> <<"My list created via Network List API">>,
                  Type |-> <<SupersededNetworkTypeString(SupersededGEO)>>,
                  Description |-> <<"The list is maintained by a Golang library">>,
                  List |-> countries])]
     IN  \E c \in SupersededCreateNetworkList(p, ServiceAnswers) :
           /\ Called("createNetworkList", c)
           /\ IF c.panic THEN pc' = "panic" /\ params' = params
              ELSE IF c.err # Nil THEN pc' = "fatal" /\ params' = params
              ELSE /\ pc' = "getNetworkList"
                   /\ params' = [params EXCEPT !.listID = c.result[1].UniqueID]
  /\ UNCHANGED <<op, errorCalls>>

\* getNetworkList(ctx, netlistClient, listGEO)
getNetworkList ==
  /\ op = Older
  /\ pc = "getNetworkList"
  /\ LET p == [OptionalParams |-> Some([Extended |-> TRUE, IncludeElements |-> TRUE]),
               NetworkListID |-> params.listID]
     IN  \E c \in SupersededGetNetworkList(p, ServiceAnswers) :
           /\ Called("getNetworkList", c)
           /\ pc' = IF c.panic THEN "panic"
                    ELSE IF c.err # Nil THEN "fatal"
                    ELSE "updateNetworkList"
  /\ UNCHANGED <<op, params, errorCalls>>

\* updateNetworkList(ctx, netlistClient, listGEO): the request is built
\* without a SyncPoint, which is therefore 0
updateNetworkList ==
  /\ op = Older
  /\ pc = "updateNetworkList"
  /\ IF SupersededNetworkTypeStringPanics(SupersededGEO)
     THEN pc' = "panic" /\ UNCHANGED <<req, resp, ret, execCalls>>
     ELSE
     LET p == [BodyNetworkListRequest |-> Some(
                 [GetNetworkListRequest |-> Some(
                    [OptionalParams |-> Some([Extended |-> TRUE, IncludeElements |-> TRUE]),
                     NetworkListID |-> params.listID]),
                  Name |-> <<"Include one country">>,
                  Type |-> <<SupersededNetworkTypeString(SupersededGEO)>>,
                  Description |-> <<"Updated notes">>,
                  List |-> <<"CH">>]),
               SyncPoint |-> 0]
     IN  \E c \in SupersededUpdateNetworkList(p, ServiceAnswers) :
           /\ Called("updateNetworkList", c)
           /\ pc' = IF c.panic THEN "panic"
                    ELSE IF c.err # Nil THEN "fatal"
                    ELSE "deleteNetworkList"
  /\ UNCHANGED <<op, params, errorCalls>>

\* deleteNetworkList(ctx, netlistClient, listGEO): the request names the
\* list and has no optional parameters
deleteNetworkList ==
  /\ op = Older
  /\ pc = "deleteNetworkList"
  /\ LET p == [GetNetworkListRequest |-> Some(
                 [OptionalParams |-> Nil, NetworkListID |-> params.listID])]
     IN  \E c \in SupersededDeleteNetworkList(p, ServiceAnswers) :
           /\ Called("deleteNetworkList", c)
           /\ pc' = IF c.panic THEN "panic"
                    ELSE IF c.err # Nil THEN "fatal"
                    ELSE "exit"
  /\ UNCHANGED <<op, params, errorCalls>>

\* main as it would be if it ended the process at the first error
LoggedFatal(c, next) ==
  /\ pc' = IF c.panic THEN "panic" ELSE IF c.err # Nil THEN "fatal" ELSE next
  /\ errorCalls' = errorCalls
  /\ UNCHANGED <<op, params>>

\* if err := f(ctx, netlistClient, listID); err != nil { log.Errorf("%v", err) }
\* and main goes on with the statement next
Logged(c, next) ==
  /\ pc' = IF c.panic THEN "panic" ELSE next
  /\ errorCalls' = errorCalls + (IF c.err # Nil THEN 1 ELSE 0)
  /\ UNCHANGED <<op, params>>

\* listID := "" is the identifier main hands to each of its five calls
appendIPNetworkList ==
  /\ op = Current
  /\ pc = "appendIPNetworkList"
  /\ LET p == [List |-> <<"1.1.1.1">>, NetworkListID |-> params.listID]
     IN  \E c \in AppendListWays(p, ExecOutcomes(TRUE)) :
           Called("appendIPNetworkList", c) /\ Logged(c, "activateNetworkList")

activateNetworkList ==
  /\ op = Current
  /\ pc = "activateNetworkList"
  /\ LET p == [NetworkListID |-> params.listID, Environment |-> STAGING,
               Comments |-> <<"Update via code">>,
               NotificationRecipients |-> <<"andrey.petriv1@gmail.com">>]
     IN  \E c \in ActivateNetworkListWays(p, ExecOutcomes(TRUE)) :
           Called("activateNetworkList", c) /\ Logged(c, "getActivationNetworkList")

getActivationNetworkList ==
  /\ op = Current
  /\ pc = "getActivationNetworkList"
  /\ LET p == [NetworkListID |-> params.listID, Environment |-> STAGING,
               Comments |-> <<>>, NotificationRecipients |-> <<>>]
     IN  \E c \in GetActivationNetworkListWays(p, ExecOutcomes(TRUE)) :
           Called("getActivationNetworkList", c) /\ Logged(c, "getActivationSnapshot")

getActivationSnapshot ==
  /\ op = Current
  /\ pc = "getActivationSnapshot"
  /\ LET p == [NetworkListID |-> params.listID, SyncPoint |-> 0, Extended |-> TRUE]
     IN  \E c \in GetActivationSnapshotWays(p, ExecOutcomes(TRUE)) :
           Called("getActivationSnapshot", c) /\ Logged(c, "updateNLDetails")

updateNLDetails ==
  /\ op = Current
  /\ pc = "updateNLDetails"
  /\ LET p == [NetworkListID |-> params.listID,
               Name |-> <<"Update Network List Details Name">>,
               Description |-> <<"Update Network List Details Description">>]
     IN  \E c \in UpdateNetworkListDetailsWays(p, ExecOutcomes(FALSE)) :
           Called("updateNLDetails", c) /\ Logged(c, "exit")

DriverNext ==
  \/ AuthSession
  \/ getContractsGeneric
  \/ createNetworkList
  \/ getNetworkList
  \/ updateNetworkList
  \/ deleteNetworkList
  \/ appendIPNetworkList
  \/ activateNetworkList
  \/ getActivationNetworkList
  \/ getActivationSnapshot
  \/ updateNLDetails

SpecDriver == DriverInit /\ [][DriverNext]_vars

----------------------------------------------------------------------------
(* One call of a method of the superseded client, for every request value.
   pc, op, params, req, resp, ret, execCalls and errorCalls are those of the
   later client's specification; the call is one step, from "idle" to
   "done". *)

\* the call of method o with the request p went the way c
Invoked(o, p, c) ==
  /\ pc' = "done"
  /\ op' = o
  /\ params' = p
  /\ req' = c.sent
  /\ resp' = c.answer
  /\ ret' = Some([result |-> c.result, err |-> c.err, panic |-> c.panic])
  /\ execCalls' = IF c.sent # Nil THEN 1 ELSE 0
  /\ errorCalls' = IF c.answer # Nil /\ c.err = Some(Error(c.answer[1])) THEN 1 ELSE 0

InvokeSupersededListNetworkLists ==
  /\ pc = "idle"
  /\ \E p \in ListNetworkListsRequests :
       \E c \in SupersededListNetworkLists(p, ExecOutcomes(TRUE)) :
         Invoked("ListNetworkLists", p, c)

InvokeSupersededGetNetworkList ==
  /\ pc = "idle"
  /\ \E p \in GetNetworkListRequests :
       \E c \in SupersededGetNetworkList(p, ExecOutcomes(TRUE)) :
         Invoked("GetNetworkList", p, c)

InvokeSupersededUpdateNetworkList ==
  /\ pc = "idle"
  /\ \E p \in UpdateNetworkListRequests :
       \E c \in SupersededUpdateNetworkList(p, ExecOutcomes(TRUE)) :
         Invoked("UpdateNetworkList", p, c)

InvokeSupersededCreateNetworkList ==
  /\ pc = "idle"
  /\ \E p \in CreateNetworkListRequests :
       \E c \in SupersededCreateNetworkList(p, ExecOutcomes(TRUE)) :
         Invoked("CreateNetworkList", p, c)

InvokeSupersededDeleteNetworkList ==
  /\ pc = "idle"
  /\ \E p \in DeleteNetworkListRequests :
       \E c \in SupersededDeleteNetworkList(p, ExecOutcomes(TRUE)) :
         Invoked("DeleteNetworkList", p, c)

InvokeSupersededAppendList ==
  /\ pc = "idle"
  /\ \E p \in AppendListRequests :
       \E c \in SupersededAppendList(p, ExecOutcomes(TRUE)) :
         Invoked("AppendList", p, c)

InvokeSupersededAddElement ==
  /\ pc = "idle"
  /\ \E p \in AddElementRequests :
       \E c \in SupersededAddElement(p, ExecOutcomes(TRUE)) :
         Invoked("AddElement", p, c)

InvokeSupersededRemoveElement ==
  /\ pc = "idle"
  /\ \E p \in RemoveElementRequests :
       \E c \in SupersededRemoveElement(p, ExecOutcomes(TRUE)) :
         Invoked("RemoveElement", p, c)

SupersededNext ==
  \/ InvokeSupersededListNetworkLists
  \/ InvokeSupersededGetNetworkList
  \/ InvokeSupersededUpdateNetworkList
  \/ InvokeSupersededCreateNetworkList
  \/ InvokeSupersededDeleteNetworkList
  \/ InvokeSupersededAppendList
  \/ InvokeSupersededAddElement
  \/ InvokeSupersededRemoveElement

SpecSuperseded == Init /\ [][SupersededNext]_vars

----------------------------------------------------------------------------
(* What the properties talk about. *)

\* the last invocation has returned or panicked
Returned == pc = "idle" /\ ret # Nil

\* the methods that check their request before anything else
ValidatedOps ==
  {"GetNetworkList", "UpdateNetworkList", "DeleteNetworkList", "AppendList",
   "AddElement", "RemoveElement", "ActivateNetworkList",
   "GetActivationNetworkList", "GetActivationSnapshot",
   "UpdateNetworkListDetails"}

\* the methods that return (result, error)
ResultOps ==
  {"ListNetworkLists", "GetNetworkList", "UpdateNetworkList",
   "CreateNetworkList", "DeleteNetworkList", "AppendList", "AddElement",
   "RemoveElement", "ActivateNetworkList", "GetActivationNetworkList",
   "GetActivationSnapshot", "GetConfigs", "GetConfigVersions", "GetPolicies",
   "GetRules"}

\* params.Validate() can be evaluated: no embedded pointer it reads is nil
DerefsOf(o, p) ==
  CASE o = "UpdateNetworkList" -> UpdateNetworkListRequestDerefs(p)
    [] o = "DeleteNetworkList" -> p.GetNetworkListRequest # Nil
    [] o = "RemoveElement"     -> RemoveElementRequestDerefs(p)
    [] OTHER                   -> TRUE

\* params.Validate() of the method o
ValidateOf(o, p) ==
  CASE o = "GetNetworkList"           -> GetNetworkListRequestValidate(p)
    [] o = "UpdateNetworkList"        -> UpdateNetworkListRequestValidate(p)
    [] o = "DeleteNetworkList"        -> GetNetworkListRequestValidate(p.GetNetworkListRequest[1])
    [] o = "AppendList"               -> AppendListRequestValidate(p)
    [] o = "AddElement"               -> AddElementRequestValidate(p)
    [] o = "RemoveElement"            -> RemoveElementRequestValidate(p)
    [] o = "ActivateNetworkList"      -> ActivateNetworkListRequestValidate(p)
    [] o = "GetActivationNetworkList" -> ActivateNetworkListRequestValidate(p)
    [] o = "GetActivationSnapshot"    -> GetActivationSnapshotRequestValidate(p)
    [] o = "UpdateNetworkListDetails" -> UpdateNetworkListDetailsRequestValidate(p)

\* the request of the invocation fails validation
FailsValidation ==
  /\ op \in ValidatedOps
  /\ DerefsOf(op, params)
  /\ ValidateOf(op, params) # Nil

\* the request of the invocation passes validation (a method without
\* request check accepts every request)
PassesValidation ==
  \/ op \in ResultOps \ ValidatedOps
  \/ /\ op \in ValidatedOps
     /\ DerefsOf(op, params)
     /\ ValidateOf(op, params) = Nil

\* token t occurs in text followed, two tokens on, by u ("t: u")
Carries(text, t, u) ==
  \E i \in 1..(Len(text) - 2) : text[i] = t /\ text[i + 2] = u

----------------------------------------------------------------------------
(* Properties. *)

\* C1: when the request of a validated network-list method fails validation,
\* the method returns no result and an error that wraps ErrStructValidation
\* and carries the message of every failing field, and Exec is never called.
C1_ValidationFailureStopsBeforeExec ==
  FailsValidation =>
    /\ Returned
    /\ ~ret[1].panic
    /\ ret[1].result = Nil
    /\ ret[1].err # Nil
    /\ ErrorsIs(ret[1].err[1], ErrStructValidation)
    /\ ret[1].err[1] # ErrStructValidation
    /\ \A k \in DOMAIN ValidateOf(op, params)[1] :
         Carries(ret[1].err[1].text, k, ValidateOf(op, params)[1][k])
    /\ execCalls = 0
    /\ req = Nil
    /\ resp = Nil

\* an UpdateNetworkListDetails call with all three required fields empty has
\* returned its struct-validation error
C1_Witness ==
  /\ op = "UpdateNetworkListDetails"
  /\ Returned
  /\ params.NetworkListID = <<>> /\ params.Name = <<>> /\ params.Description = <<>>
  /\ ret[1].err # Nil
  /\ ErrorsIs(ret[1].err[1], ErrStructValidation)
  /\ execCalls = 0

\* C2 (as claimed): an invocation whose request passes validation calls Exec
\* exactly once, and no invocation calls Exec more than once.
C2_ExactlyOneExecWhenValid ==
  /\ execCalls <= 1
  /\ (Returned /\ PassesValidation) => execCalls = 1

\* C3 (as claimed): a result-returning method ends with a result and no
\* error, or with an error and no result; never both, never neither.
C3_ResultXorError ==
  (Returned /\ op \in ResultOps) =>
    \/ ret[1].result # Nil /\ ret[1].err = Nil
    \/ ret[1].result = Nil /\ ret[1].err # Nil

\* Exec returned a response (no transport error) to the invocation that
\* has now returned
Answered == Returned /\ resp # Nil /\ resp[1].err = Nil

\* C4: CreateNetworkList returns the decoded list and no error when the
\* transport answers 201, and no result and an error for every other status.
C4_CreateSucceedsOnlyOn201 ==
  (op = "CreateNetworkList" /\ Answered) =>
    IF resp[1].StatusCode = 201
    THEN ret[1].result = Some(resp[1].decoded) /\ ret[1].err = Nil
    ELSE ret[1].result = Nil /\ ret[1].err # Nil

\* a create call answered 201 has returned the decoded list
C4_Witness ==
  /\ op = "CreateNetworkList"
  /\ Answered
  /\ resp[1].StatusCode = 201
  /\ ret[1].result = Some(resp[1].decoded)
  /\ resp[1].decoded # ZeroBody

\* the one success status of each operation, as documented
DocumentedSuccess(o) == IF o = "AppendList" THEN 202 ELSE 200

SingleStatusOps ==
  {"ListNetworkLists", "GetNetworkList", "UpdateNetworkList",
   "DeleteNetworkList", "AddElement", "RemoveElement", "ActivateNetworkList",
   "GetActivationNetworkList", "GetActivationSnapshot", "GetConfigs",
   "GetConfigVersions", "GetPolicies", "GetRules", "AppendList"}

\* C5: each of these operations succeeds on its one documented status (202
\* for AppendList, 200 for the others) and returns the decoded response; on
\* any other status the decoded body is dropped and the error of the
\* session's Error(resp), called once, is returned.
C5_OneSuccessStatusPerOperation ==
  (op \in SingleStatusOps /\ Answered) =>
    IF resp[1].StatusCode = DocumentedSuccess(op)
    THEN /\ ret[1].result = Some(resp[1].decoded)
         /\ ret[1].err = Nil
         /\ errorCalls = 0
    ELSE /\ ret[1].result = Nil
         /\ ret[1].err = Some(Error(resp[1]))
         /\ errorCalls = 1

\* an AppendList call answered 200, with a decoded body, has returned the
\* session's error and no result
C5_Witness ==
  /\ op = "AppendList"
  /\ Answered
  /\ resp[1].StatusCode = 200
  /\ resp[1].decoded # ZeroBody
  /\ ret[1].result = Nil
  /\ ret[1].err = Some(Error(resp[1]))

\* C6: UpdateNetworkListDetails with a valid request returns no error
\* exactly when the transport answers 204, and it hands Exec no decode
\* target.
C6_DetailsSucceedsOnlyOn204 ==
  (op = "UpdateNetworkListDetails" /\ PassesValidation) =>
    /\ req # Nil => ~req[1].Out
    /\ Returned =>
         /\ ret[1].result = Nil
         /\ (ret[1].err = Nil <=>
               (resp # Nil /\ resp[1].err = Nil /\ resp[1].StatusCode = 204))

\* a details update answered 204 has returned nil
C6_Witness ==
  /\ op = "UpdateNetworkListDetails"
  /\ Answered
  /\ resp[1].StatusCode = 204
  /\ ret[1].err = Nil
  /\ ~req[1].Out

AllOps == ResultOps \cup {"UpdateNetworkListDetails"}

\* C7: when Exec itself fails, the method returns no result and an error
\* that wraps the Exec error behind the prefix of that operation, which no
\* other operation uses; the session's Error is not called.
C7_ExecFailureIsWrapped ==
  (Returned /\ resp # Nil /\ resp[1].err # Nil) =>
    /\ ret[1].result = Nil
    /\ ret[1].err # Nil
    /\ ret[1].err[1] # resp[1].err[1]
    /\ ErrorsIs(ret[1].err[1], resp[1].err[1])
    /\ ret[1].err[1].unwrap = resp[1].err
    /\ ret[1].err[1].text = <<RequestFailedPrefix(op), ": ">> \o resp[1].err[1].text
    /\ \A o \in AllOps \ {op} : RequestFailedPrefix(o) # RequestFailedPrefix(op)
    /\ errorCalls = 0

\* GetConfigVersions has returned the wrapped error of a failed Exec
C7_Witness ==
  /\ op = "GetConfigVersions"
  /\ Returned
  /\ resp # Nil /\ resp[1].err # Nil
  /\ ErrorsIs(ret[1].err[1], resp[1].err[1])
  /\ ret[1].err[1].text[1] = "getconfigversions request failed"

\* C8: the body UpdateNetworkList hands to Exec has a syncPoint equal to the
\* SyncPoint of the request it was called with, for every value.
C8_UpdateCarriesSyncPoint ==
  (op = "UpdateNetworkList" /\ req # Nil) =>
    /\ req[1].In # Nil
    /\ "syncPoint" \in DOMAIN req[1].In[1]
    /\ req[1].In[1].syncPoint = params.SyncPoint
    /\ execCalls <= 1

\* an update with sync point 0 has been sent, with syncPoint 0 in its body
C8_Witness ==
  /\ op = "UpdateNetworkList"
  /\ req # Nil
  /\ execCalls = 1
  /\ params.SyncPoint = 0
  /\ req[1].In[1].syncPoint = 0

\* the NetworkListID of the request of a validated method
IdentifierOf(o, p) ==
  CASE o = "UpdateNetworkList" ->
         p.BodyNetworkListRequest[1].GetNetworkListRequest[1].NetworkListID
    [] o = "DeleteNetworkList" -> p.GetNetworkListRequest[1].NetworkListID
    [] o = "RemoveElement"     -> p.AddElementRequest[1].NetworkListID
    [] OTHER                   -> p.NetworkListID

\* the required fields, other than the identifier, that the request lacks
\* (an empty string, a zero enumeration value), by their names
OtherMissingFields(o, p) ==
  CASE o = "AddElement" -> {f \in {"element"} : p.Element = <<>>}
    [] o = "RemoveElement" -> {f \in {"element"} : p.AddElementRequest[1].Element = <<>>}
    [] o \in {"ActivateNetworkList", "GetActivationNetworkList"} ->
         {f \in {"environment"} : p.Environment = 0}
    [] o = "UpdateNetworkListDetails" ->
         {f \in {"name"} : p.Name = <<>>} \cup {f \in {"description"} : p.Description = <<>>}
    [] OTHER -> {}

\* the required fields the request lacks
MissingFields(o, p) ==
  {f \in {"networkListId"} : IdentifierOf(o, p) = <<>>} \cup OtherMissingFields(o, p)

\* a validated method was called with a request whose Validate can run
Validating == op \in ValidatedOps /\ DerefsOf(op, params)

\* C9 (as claimed): Validate with an empty identifier yields an error naming
\* networkListId, and Validate with a non-empty identifier yields no error.
C9_IdentifierAloneDecides ==
  Validating =>
    IF IdentifierOf(op, params) = <<>>
    THEN /\ ValidateOf(op, params) # Nil
         /\ "networkListId" \in DOMAIN ValidateOf(op, params)[1]
    ELSE ValidateOf(op, params) = Nil

\* C9 (amended): Validate with an empty identifier yields an error naming
\* networkListId; with a non-empty identifier it yields no error naming
\* networkListId, and no error at all when the other required fields of the
\* request are present.
C9_IdentifierErrorIffEmpty ==
  Validating =>
    IF IdentifierOf(op, params) = <<>>
    THEN /\ ValidateOf(op, params) # Nil
         /\ "networkListId" \in DOMAIN ValidateOf(op, params)[1]
    ELSE /\ ValidateOf(op, params) # Nil =>
              "networkListId" \notin DOMAIN ValidateOf(op, params)[1]
         /\ OtherMissingFields(op, params) = {} => ValidateOf(op, params) = Nil

\* AddElement was called with an identifier and no element: its Validate
\* yields an error, which names element only
C9_Witness ==
  /\ op = "AddElement"
  /\ Returned
  /\ params.NetworkListID # <<>>
  /\ params.Element = <<>>
  /\ DOMAIN ValidateOf(op, params)[1] = {"element"}
  /\ ErrorsIs(ret[1].err[1], ErrStructValidation)

\* C10: Validate returns no error exactly when no required field is missing,
\* and otherwise an aggregate whose keys are exactly the names of the
\* missing required fields; the request is the one the caller passed.
C10_ValidateKeysAreMissingFields ==
  Validating =>
    IF MissingFields(op, params) = {}
    THEN ValidateOf(op, params) = Nil
    ELSE /\ ValidateOf(op, params) # Nil
         /\ DOMAIN ValidateOf(op, params)[1] = MissingFields(op, params)
         /\ \A k \in MissingFields(op, params) :
              ValidateOf(op, params)[1][k] = "cannot be blank"

\* RemoveElement was called without identifier and without element: the
\* aggregate has both keys
C10_Witness ==
  /\ op = "RemoveElement"
  /\ Returned
  /\ DerefsOf(op, params)
  /\ DOMAIN ValidateOf(op, params)[1] = {"networkListId", "element"}
  /\ params.AddElementRequest[1].NetworkListID = <<>>
  /\ params.AddElementRequest[1].Element = <<>>
  /\ ret[1].err # Nil

\* the values a query string gives to a key, read back with url.ParseQuery
QueryValues(raw, key) ==
  LET q == ParseQuery(raw)
  IN  {q[i][2] : i \in {j \in 1..Len(q) : q[j][1] = <<key>>}}

\* the methods that send the extended and includeElements options
BooleanQueryOps == {"ListNetworkLists", "GetNetworkList", "UpdateNetworkList"}

\* the OptionalParams record of the request of such a method
OptionalParamsOf(o, p) ==
  IF o = "UpdateNetworkList"
  THEN p.BodyNetworkListRequest[1].GetNetworkListRequest[1].OptionalParams[1]
  ELSE p.OptionalParams[1]

\* C11: the query ListNetworkLists, GetNetworkList and UpdateNetworkList send
\* has extended and includeElements, each once and with the value of the
\* request field, false included; the query of ListNetworkLists has search
\* exactly when Search is non-empty, and then with the value of Search.
C11_BooleanOptionsAlwaysSent ==
  (op \in BooleanQueryOps /\ req # Nil) =>
    /\ QueryValues(req[1].RawQuery, "extended") =
         {FormatBool(OptionalParamsOf(op, params).Extended)}
    /\ QueryValues(req[1].RawQuery, "includeElements") =
         {FormatBool(OptionalParamsOf(op, params).IncludeElements)}
    /\ op = "ListNetworkLists" =>
         QueryValues(req[1].RawQuery, "search") =
           IF params.Search = <<>> THEN {} ELSE {params.Search}
    /\ op # "ListNetworkLists" => QueryValues(req[1].RawQuery, "search") = {}

\* ListNetworkLists has sent a request with both options false and a search
\* string: the query spells both options out
C11_Witness ==
  /\ op = "ListNetworkLists"
  /\ req # Nil
  /\ execCalls = 1
  /\ ~params.OptionalParams[1].Extended
  /\ ~params.OptionalParams[1].IncludeElements
  /\ params.Search = <<"a", " ">>
  /\ params.ListType = 0
  /\ req[1].RawQuery = <<"extended", "=", "false", "&", "includeElements", "=",
                         "false", "&", "search", "=", "a", "+">>

\* C12 (as claimed): ListNetworkLists sends a query without listType when
\* ListType is the zero value, with listType=IP when it is IP, and with
\* listType=GEO when it is GEO.
C12_ListTypeSentByName ==
  (op = "ListNetworkLists" /\ params.OptionalParams # Nil
     /\ params.ListType \in {0, IP, GEO}) =>
    /\ req # Nil
    /\ QueryValues(req[1].RawQuery, "listType") =
         CASE params.ListType = IP  -> {<<"IP">>}
           [] params.ListType = GEO -> {<<"GEO">>}
           [] OTHER                 -> {}

ElementOps == {"AddElement", "RemoveElement"}

\* the identifier and element of the request of AddElement or RemoveElement
ElementRequestOf(o, p) ==
  IF o = "RemoveElement" THEN p.AddElementRequest[1] ELSE p

Delimiters ==
  {"/", "/append", "/elements", "/details", "/environments/", "/activate",
   "/status", "/sync-points/", "/history"}

\* the segment of a path that starts at position i
SegmentAt(path, i) ==
  LET ends == {j \in i..Len(path) : path[j] \in Delimiters}
      stop == IF ends = {} THEN Len(path) + 1
              ELSE CHOOSE j \in ends : \A k \in ends : j <= k
  IN  SubSeq(path, i, stop - 1)

\* the segment that follows the first occurrence of a delimiter token
SegmentAfter(path, d) ==
  IF IndexOf(path, d) = 0 THEN <<>> ELSE SegmentAt(path, IndexOf(path, d) + 1)

RECURSIVE Atoi(_)
\* the number a sequence of decimal digits spells
Atoi(s) ==
  IF s = <<>> THEN 0
  ELSE 10 * Atoi(SubSeq(s, 1, Len(s) - 1))
       + (CHOOSE d \in 0..9 : Digits[d + 1] = s[Len(s)])

\* the one value a query gives to a key, Nil without one
QueryValue(raw, key) ==
  IF QueryValues(raw, key) = {} THEN Nil
  ELSE Some(CHOOSE v \in QueryValues(raw, key) : TRUE)

\* the request fields a receiver reads back from the path and the query of
\* a network-list request: absent fields read as their zero values
ParsedID(r) == SegmentAt(r.Path, 3)

ParsedBool(r, key) == QueryValue(r.RawQuery, key) = Some(<<"true">>)

ParsedString(r, key) ==
  IF QueryValue(r.RawQuery, key) = Nil THEN <<>> ELSE QueryValue(r.RawQuery, key)[1]

ParsedListType(r) ==
  CASE QueryValue(r.RawQuery, "listType") = Some(<<"IP">>)  -> IP
    [] QueryValue(r.RawQuery, "listType") = Some(<<"GEO">>) -> GEO
    [] OTHER -> 0

ParsedEnvironment(r) ==
  CASE SegmentAfter(r.Path, "/environments/") = <<"STAGING">>    -> STAGING
    [] SegmentAfter(r.Path, "/environments/") = <<"PRODUCTION">> -> PRODUCTION
    [] OTHER -> 0

ParsedSyncPoint(r) == Atoi(SegmentAfter(r.Path, "/sync-points/"))

\* the network-list methods whose path embeds the identifier
IdentifiedOps == ValidatedOps

\* C14 (as claimed): the fields read back from the path and the query a
\* network-list method built are the fields of the request it was called
\* with: NetworkListID, Extended, IncludeElements, Search, ListType, Element,
\* Environment and SyncPoint.
C14_RoundTrip ==
  (req # Nil /\ op \in IdentifiedOps \cup {"ListNetworkLists"}) =>
    LET r == req[1]
    IN  /\ op \in IdentifiedOps => ParsedID(r) = IdentifierOf(op, params)
        /\ op \in BooleanQueryOps =>
             /\ ParsedBool(r, "extended") = OptionalParamsOf(op, params).Extended
             /\ ParsedBool(r, "includeElements") =
                  OptionalParamsOf(op, params).IncludeElements
        /\ op = "ListNetworkLists" =>
             /\ ParsedString(r, "search") = params.Search
             /\ ParsedListType(r) = params.ListType
        /\ op \in ElementOps =>
             ParsedString(r, "element") = ElementRequestOf(op, params).Element
        /\ op \in {"ActivateNetworkList", "GetActivationNetworkList"} =>
             ParsedEnvironment(r) = params.Environment
        /\ op = "GetActivationSnapshot" =>
             /\ ParsedBool(r, "extended") = params.Extended
             /\ ParsedSyncPoint(r) = params.SyncPoint

\* the invocation has returned an error and no result without building a
\* request or calling Exec
StoppedBeforeExec ==
  /\ Returned
  /\ ~ret[1].panic
  /\ ret[1].result = Nil
  /\ ret[1].err # Nil
  /\ req = Nil
  /\ execCalls = 0

\* C15 (as claimed): GetRules called with an empty policyId returns an error
\* before any network call, as every network-list method does when its
\* networkListId is empty.
C15_EmptyIdentifierStopsBeforeExec ==
  /\ (op = "GetRules" /\ params.policyID = <<>>) => StoppedBeforeExec
  /\ (Validating /\ IdentifierOf(op, params) = <<>>) => StoppedBeforeExec

ActivationOps == {"ActivateNetworkList", "GetActivationNetworkList"}

\* C16 (as claimed): ActivateNetworkList and GetActivationNetworkList called
\* with an Environment other than STAGING and PRODUCTION return a
\* struct-validation error and do not reach the transport.
C16_EnvironmentClosedSet ==
  (op \in ActivationOps /\ params.Environment \notin {STAGING, PRODUCTION}) =>
    /\ StoppedBeforeExec
    /\ ErrorsIs(ret[1].err[1], ErrStructValidation)

\* C17: of two UpdateNetworkList invocations running concurrently for one
\* list, each calls Exec at most once, and exactly once by the time it has
\* returned, with its own SyncPoint in the body; each returns what follows
\* from its own response (a rejection is returned as the session's error and
\* not sent again); and a step of one is never held back by the other.
C17_ConcurrentUpdatesIndependent ==
  \A i \in Invocations :
    /\ execCalls[i] <= 1
    /\ req[i] # Nil =>
         /\ req[i][1].Method = "PUT"
         /\ req[i][1].In[1].syncPoint = params[i].SyncPoint
    /\ pc[i] = "done" =>
         /\ execCalls[i] = 1
         /\ errorCalls[i] <= 1
         /\ ret[i] = Some(UpdateNetworkListResult(resp[i][1]))
         /\ (resp[i][1].err = Nil /\ resp[i][1].StatusCode # 200) =>
              /\ ret[i][1].result = Nil
              /\ ret[i][1].err = Some(Error(resp[i][1]))
    /\ pc[i] = "idle" => ENABLED UpdateNetworkListBy(i)
    /\ pc[i] = "exec" => ENABLED ExecBy(i)
    /\ pc[i] = "ret" => ENABLED UpdateNetworkListReturnBy(i)

\* both invocations sent an update based on sync point 1; the service
\* accepted the second and rejected the first, which returned the error after
\* its one request
C17_Witness ==
  /\ pc[1] = "done" /\ pc[2] = "done"
  /\ params[1].SyncPoint = 1 /\ params[2].SyncPoint = 1
  /\ req[1][1].In[1].syncPoint = 1 /\ req[2][1].In[1].syncPoint = 1
  /\ resp[2][1].err = Nil /\ resp[2][1].StatusCode = 200
  /\ resp[2][1].decoded.SyncPoint = 1
  /\ ret[2][1].result = Some(resp[2][1].decoded)
  /\ resp[1][1].err = Nil /\ resp[1][1].StatusCode = 500
  /\ ret[1][1].result = Nil
  /\ ret[1][1].err = Some(Error(resp[1][1]))
  /\ execCalls[1] = 1 /\ execCalls[2] = 1

\* The request of a method as a function of the method and its request
\* value alone: HTTP method, URI, added query settings and body.
MethodOf(o) ==
  CASE o \in {"UpdateNetworkList", "AddElement", "UpdateNetworkListDetails"} -> "PUT"
    [] o \in {"CreateNetworkList", "AppendList", "ActivateNetworkList"} -> "POST"
    [] o \in {"DeleteNetworkList", "RemoveElement"} -> "DELETE"
    [] OTHER -> "GET"

UriOf(o, p) ==
  CASE o \in {"ListNetworkLists", "CreateNetworkList"} -> NetworkListsPath
    [] o \in {"GetNetworkList", "UpdateNetworkList", "DeleteNetworkList"} ->
         NetworkListsPath \o <<"/">> \o IdentifierOf(o, p)
    [] o = "AppendList" ->
         NetworkListsPath \o <<"/">> \o p.NetworkListID \o <<"/append">>
    [] o \in ElementOps ->
         NetworkListsPath \o <<"/">> \o IdentifierOf(o, p) \o <<"/elements">>
    [] o = "ActivateNetworkList" ->
         NetworkListsPath \o <<"/">> \o p.NetworkListID \o <<"/environments/">>
         \o <<EnvironmentString(p.Environment)>> \o <<"/activate">>
    [] o = "GetActivationNetworkList" ->
         NetworkListsPath \o <<"/">> \o p.NetworkListID \o <<"/environments/">>
         \o <<EnvironmentString(p.Environment)>> \o <<"/status">>
    [] o = "GetActivationSnapshot" ->
         NetworkListsPath \o <<"/">> \o p.NetworkListID \o <<"/sync-points/">>
         \o Itoa(p.SyncPoint) \o <<"/history">>
    [] o = "UpdateNetworkListDetails" ->
         NetworkListsPath \o <<"/">> \o p.NetworkListID \o <<"/details">>
    [] o = "GetConfigs" -> <<"/appsec/v1/configs">>
    [] o = "GetConfigVersions" -> configVersionsURL(p.configID, p.params)
    [] o = "GetPolicies" ->
         <<"/appsec/v1/configs/">> \o Itoa(p.configID) \o <<"/versions/">>
         \o Itoa(p.versionNumber) \o <<"/security-policies">>
    [] o = "GetRules" ->
         <<"/appsec/v1/configs/">> \o Itoa(p.configID) \o <<"/versions/">>
         \o Itoa(p.versionNumber) \o <<"/security-policies/">> \o p.policyID
         \o <<"/rules">>

\* the settings the method adds to the query, as <<key, value>> pairs
AddedOf(o, p) ==
  CASE o \in BooleanQueryOps ->
         <<<<<<"extended">>, FormatBool(OptionalParamsOf(o, p).Extended)>>,
           <<<<"includeElements">>, FormatBool(OptionalParamsOf(o, p).IncludeElements)>>>>
         \o (IF o = "ListNetworkLists" /\ p.Search # <<>>
             THEN <<<<<<"search">>, p.Search>>>> ELSE <<>>)
         \o (IF o = "ListNetworkLists" /\ p.ListType \in {IP, GEO}
             THEN <<<<<<"listType">>, <<NetworkTypeString(p.ListType)>>>>>> ELSE <<>>)
    [] o \in ElementOps ->
         <<<<<<"element">>, ElementRequestOf(o, p).Element>>>>
    [] o = "GetActivationSnapshot" ->
         <<<<<<"extended">>, FormatBool(p.Extended)>>>>
    [] OTHER -> <<>>

BodyOf(o, p) ==
  CASE o = "UpdateNetworkList" -> Some(MarshalUpdateNetworkListRequest(p))
    [] o = "CreateNetworkList" -> Some(MarshalCreateNetworkListRequest(p))
    [] o = "AppendList" -> Some(MarshalAppendListRequest(p))
    [] o = "ActivateNetworkList" -> Some(MarshalActivateNetworkListRequest(p))
    [] o = "UpdateNetworkListDetails" -> Some(MarshalUpdateNetworkListDetailsRequest(p))
    [] OTHER -> Nil

RequestOf(o, p) ==
  LET u == Parse(UriOf(o, p))
  IN  [Method |-> MethodOf(o), Path |-> u.Path,
       RawQuery |-> IF AddedOf(o, p) = <<>> THEN u.RawQuery
                    ELSE Encode(ParseQuery(u.RawQuery) \o AddedOf(o, p)),
       Out |-> o # "UpdateNetworkListDetails", In |-> BodyOf(o, p)]

\* C18: the request an invocation hands to Exec (method, path, encoded
\* query, body) is a function of the method and the request value it was
\* called with, after every sequence of earlier invocations: two invocations
\* of one method with equal requests build equal HTTP requests.
C18_RequestDependsOnArgumentsOnly ==
  req # Nil => req[1] = RequestOf(op, params)

\* an update of list L1 has been handed to Exec, built from its request only
C18_Witness ==
  /\ op = "UpdateNetworkList"
  /\ pc = "exec"
  /\ params.SyncPoint = 1
  /\ req[1].Method = "PUT"
  /\ req[1].Path = <<"/network-list/v2/network-lists", "/", "L", "1">>
  /\ req[1].RawQuery = <<"extended", "=", "true", "&", "includeElements", "=", "false">>
  /\ req[1].In = Some(MarshalUpdateNetworkListRequest(params))
  /\ req[1] = RequestOf(op, params)

AppsecOps == {"GetConfigs", "GetConfigVersions", "GetPolicies", "GetRules"}

MutatingOps ==
  {"UpdateNetworkList", "DeleteNetworkList", "AppendList", "AddElement",
   "RemoveElement", "UpdateNetworkListDetails", "ActivateNetworkList"}

\* the request names a sync point: in its body, its query or its path
CarriesSyncPoint(r) ==
  \/ r.In # Nil /\ "syncPoint" \in DOMAIN r.In[1]
  \/ QueryValues(r.RawQuery, "syncPoint") # {}
  \/ IndexOf(r.Path, "/sync-points/") # 0

\* C20 (as claimed): the request of every mutating network-list call
\* carries a sync point.
C20_MutatingCallsCarrySyncPoint ==
  (op \in MutatingOps /\ req # Nil) => CarriesSyncPoint(req[1])

\* C21 (as claimed): after CheckAccountID with a string accountID the query
\* of the request has accountSwitchKey equal to accountID; with nil or a
\* value of another type the request is as it was.
C21_AccountSwitchKeyAdded ==
  (op = "CheckAccountID" /\ pc = "done") =>
    IF params.accountID # Nil /\ params.accountID[1].type = "string"
    THEN params.accountID[1].value \in QueryValues(req[1].RawQuery, "accountSwitchKey")
    ELSE req[1] = params.req

\* the values a request with n optional parameters is to give to a key
\* of GetConfigVersions: positional for one, two and three parameters, the
\* defaults for none and for more than three
ExpectedVersionsValues(ps, key) ==
  CASE Len(ps) = 1 -> IF key = "detail" THEN {ps[1]} ELSE {}
    [] Len(ps) = 2 -> IF key = "page" THEN {ps[1]}
                      ELSE IF key = "pageSize" THEN {ps[2]} ELSE {}
    [] Len(ps) = 3 -> IF key = "page" THEN {ps[1]}
                      ELSE IF key = "pageSize" THEN {ps[2]} ELSE {ps[3]}
    [] OTHER       -> IF key = "page" THEN {<<"1">>}
                      ELSE IF key = "pageSize" THEN {<<"2", "5">>} ELSE {<<"true">>}

C23_LookupReturnsOwnLabel ==
  /\ (op = "ListNetworkLists" /\ params.OptionalParams # Nil) =>
       /\ (params.ListType = IP =>
             /\ ~NetworkTypeStringPanics(IP)
             /\ NetworkTypeString(IP) = "IP"
             /\ req # Nil)
       /\ (params.ListType = GEO =>
             /\ ~NetworkTypeStringPanics(GEO)
             /\ NetworkTypeString(GEO) = "GEO"
             /\ req # Nil)
  /\ (op \in ActivationOps /\ ValidateOf(op, params) = Nil) =>
       /\ (params.Environment = STAGING =>
             ~EnvironmentStringPanics(STAGING) /\ EnvironmentString(STAGING) = "STAGING")
       /\ (params.Environment = PRODUCTION =>
             ~EnvironmentStringPanics(PRODUCTION)
             /\ EnvironmentString(PRODUCTION) = "PRODUCTION")
       /\ (Returned /\ ret[1].panic) => params.Environment \notin {STAGING, PRODUCTION}

\* C24: ActivateNetworkList sends a POST on
\* /network-list/v2/network-lists/{id}/environments/{env}/activate and
\* GetActivationNetworkList a GET on .../environments/{env}/status, {id} being
\* the NetworkListID and {env} the name of the Environment of the request;
\* only the activate call has the request as its body.
C24_ActivationCallShape ==
  (op \in ActivationOps) =>
    /\ (/\ params.NetworkListID # <<>>
        /\ ValidEscapes(params.NetworkListID)
        /\ params.Environment \in {STAGING, PRODUCTION}) => req # Nil
    /\ req # Nil =>
         /\ params.Environment \in {STAGING, PRODUCTION}
         /\ req[1].Method = IF op = "ActivateNetworkList" THEN "POST" ELSE "GET"
         /\ req[1].Path =
              NetworkListsPath \o <<"/">> \o params.NetworkListID \o <<"/environments/">>
              \o (IF params.Environment = STAGING THEN <<"STAGING">> ELSE <<"PRODUCTION">>)
              \o (IF op = "ActivateNetworkList" THEN <<"/activate">> ELSE <<"/status">>)
         /\ req[1].RawQuery = <<>>
         /\ IF op = "ActivateNetworkList"
            THEN /\ req[1].In # Nil
                 /\ req[1].In[1].comments = params.Comments
                 /\ req[1].In[1].notificationRecipients = params.NotificationRecipients
            ELSE req[1].In = Nil

\* an activation of list L1 in production has been sent
C24_Witness ==
  /\ op = "ActivateNetworkList"
  /\ execCalls = 1
  /\ params.Environment = PRODUCTION
  /\ req[1].Method = "POST"
  /\ req[1].Path = <<"/network-list/v2/network-lists", "/", "L", "1",
                     "/environments/", "PRODUCTION", "/activate">>
  /\ req[1].In[1].comments = <<"c">>

\* C25: an invocation that has made its transport call returns to its
\* caller once that call has returned: the method has no other place where
\* it blocks or loops.
C25_InvocationEventuallyReturns ==
  (pc \in {"exec", "ret"}) ~> (Returned /\ execCalls = 1)

\* AppendList has returned after its one Exec call, which answered 500
C25_Witness ==
  /\ op = "AppendList"
  /\ Returned
  /\ execCalls = 1
  /\ resp[1].err = Nil
  /\ resp[1].StatusCode = 500
  /\ ret[1].err # Nil


\* C26 (as claimed): in the older driver's sequence create, get, update,
\* delete on one list, the update request carries the sync point that the
\* create or the get response before it returned for that list.
C26_UpdateCarriesReturnedSyncPoint ==
  \A i \in 1..Len(req) :
    req[i].call = "updateNetworkList" =>
      \E j \in 1..Len(resp) :
        /\ resp[j].call \in {"createNetworkList", "getNetworkList"}
        /\ resp[j].answer.err = Nil
        /\ req[i].request.In[1].syncPoint = resp[j].answer.decoded.SyncPoint


\* C27 (as claimed): no method panics on a request value the caller can
\* construct: called with the optional-parameter group or the embedded
\* request record absent, it returns a result or an error.
C27_NoMethodPanics ==
  Returned =>
    /\ ~ret[1].panic
    /\ ret[1].result # Nil \/ ret[1].err # Nil \/ op = "UpdateNetworkListDetails"


UnvalidatedOps == {"CreateNetworkList", "ListNetworkLists"} \cup AppsecOps

\* C28 (as claimed): CreateNetworkList, ListNetworkLists and the four appsec
\* operations never return a struct-validation error, and every request
\* value is dispatched to the transport in one Exec call.
C28_NoValidationAlwaysDispatched ==
  (op \in UnvalidatedOps /\ Returned) =>
    /\ ret[1].err # Nil => ~ErrorsIs(ret[1].err[1], ErrStructValidation)
    /\ execCalls = 1


\* the methods that both definitions of the network-list client have
SharedOps ==
  {"ListNetworkLists", "GetNetworkList", "UpdateNetworkList",
   "CreateNetworkList", "DeleteNetworkList", "AppendList", "AddElement",
   "RemoveElement"}

\* the later NetworkType values that bear the name of the superseded value
\* n: 0 is IP there and is also what an unset field holds
LaterNamesakes(n) ==
  IF n = SupersededIP THEN {0, IP}
  ELSE IF n = SupersededGEO THEN {GEO}
  ELSE {}

\* the later request values equal to the superseded request p of method o
LaterRequestValues(o, p) ==
  IF o = "ListNetworkLists"
  THEN {[p EXCEPT !.ListType = t] : t \in LaterNamesakes(p.ListType)}
  ELSE {p}

\* the later client, called with q, gets as far as its Exec call
LaterReachesExec(o, q) ==
  /\ DerefsOf(o, q)
  /\ o \in ValidatedOps => ValidateOf(o, q) = Nil
  /\ Parse(UriOf(o, q)).err = Nil
  /\ o \in BooleanQueryOps => OptionalParamsOf(o, q) # Nil
  /\ (o = "ListNetworkLists" /\ q.ListType \in {IP, GEO}) =>
       ~NetworkTypeStringPanics(q.ListType)

\* the one status the later client takes for success
LaterSuccess(o) ==
  CASE o = "CreateNetworkList" -> StatusCreated
    [] o = "AppendList" -> StatusAccepted
    [] OTHER -> StatusOK

\* C29 (as claimed): for the eight methods both definitions have, the
\* request the superseded client hands to Exec has the HTTP method, path
\* and query string of the request the later client builds from the equal
\* request value (ListType taken by name), and it succeeds on the same one
\* status.
C29_DefinitionsAgreeOnRequest ==
  (op \in SharedOps /\ req # Nil
     /\ (op = "ListNetworkLists" => params.ListType \in {SupersededIP, SupersededGEO})) =>
    /\ \E q \in LaterRequestValues(op, params) :
         /\ LaterReachesExec(op, q)
         /\ RequestOf(op, q).Method = req[1].Method
         /\ RequestOf(op, q).Path = req[1].Path
         /\ RequestOf(op, q).RawQuery = req[1].RawQuery
    /\ resp[1].err = Nil =>
         (ret[1].err = Nil <=> resp[1].StatusCode = LaterSuccess(op))


\* the calls of the current driver's main, in the order of its statements
FiveCalls ==
  <<"appendIPNetworkList", "activateNetworkList", "getActivationNetworkList",
    "getActivationSnapshot", "updateNLDetails">>

\* C30: in the current driver's main, once the session is set up, the five
\* calls (append, activate, activation status, activation snapshot, details
\* update) are made in that order with the empty identifier; each ends in an
\* error wrapping ErrStructValidation that log.Errorf writes, none stops the
\* run, main returns after the fifth, and no request reaches the transport.
C30_EmptyIdentifierRunLogsFiveErrors ==
  op = Current =>
    /\ execCalls = 0 /\ req = <<>> /\ resp = <<>>
    /\ params.listID = <<>>
    /\ Len(ret) <= Len(FiveCalls)
    /\ \A i \in 1..Len(ret) :
         /\ ret[i].call = FiveCalls[i]
         /\ ~ret[i].panic
         /\ ret[i].err # Nil
         /\ ErrorsIs(ret[i].err[1], ErrStructValidation)
    /\ errorCalls = Len(ret)
    /\ pc \in {"fatal", "panic"} => ret = <<>>
    /\ pc = "exit" => Len(ret) = Len(FiveCalls)
    /\ \A k \in 1..Len(FiveCalls) : pc = FiveCalls[k] => Len(ret) = k - 1

\* main of the current driver has returned after five calls, each of which
\* ended in a logged validation error, with nothing sent
C30_Witness ==
  /\ op = Current
  /\ pc = "exit"
  /\ Len(ret) = 5
  /\ ret[1].call = "appendIPNetworkList"
  /\ ret[5].call = "updateNLDetails"
  /\ \A i \in 1..5 : ErrorsIs(ret[i].err[1], ErrStructValidation)
  /\ errorCalls = 5
  /\ execCalls = 0

====
